---- MODULE Spec2Model ----
(***************************************************************************)
(* Model of jamknife: the playlist sync job (services/sync.py), the web    *)
(* handlers and the download status loop (web/app.py), the rows of         *)
(* database.py and the remote download queue seen through clients/yubal.py. *)
(***************************************************************************)
EXTENDS Integers, Sequences, FiniteSets, TLC

\* ------------------------------------------------------------------ bounds
\* Sync jobs ever created (rows of playlist_sync_jobs).
MaxJobs == 2
\* Remote jobs this program ever creates in the download queue.
MaxRemote == 2
\* run_sync_job executions the thread pool runs at the same time.
MaxRunning == 1

\* Tracked playlists and the external album identifiers the resolver can
\* return.
Playlists == {1, 2}
Albums == {1, 2}
\* The positions of the track list the playlist source returns for
\* playlist p: playlist 1 has one track, playlist 2 has two.
TrackPositions(p) == 1..p
\* Active jobs other clients hold in the remote queue.
ForeignLevels == {0, 17, 18, 20}
\* Instants of the wall clock, in seconds.
ClockValues == {0, 7200, 7201}
\* The rating keys of the library's tracks.
RatingKeys == {1, 2}
\* track.recording_mbid of the track at position i of playlist p: the
\* playlists begin with the same track.
recording_mbid(p, i) == i
AllPositions == UNION {TrackPositions(p) : p \in Playlists}
Mbids ==
    UNION {{recording_mbid(p, i) : i \in TrackPositions(p)} : p \in Playlists}

\* ------------------------------------------------------- program constants
max_queue_size == 18
pending_limit == 20
download_timeout == 7200

\* database.py: SyncStatus
SyncStatus ==
    {"pending", "fetching", "matching", "downloading", "creating_playlist",
     "completed", "failed"}

\* database.py: DownloadStatus
DownloadStatus == {"pending", "queued", "downloading", "completed", "failed"}

\* clients/yubal.py: JobStatus
JobStatus ==
    {"pending", "fetching_info", "downloading", "importing", "completed",
     "failed", "cancelled"}

is_finished(s) == s \in {"completed", "failed", "cancelled"}

is_active(s) == s \in {"pending", "fetching_info", "downloading", "importing"}

\* Error texts the program stores in error_message (str(e) of the exception).
MsgNone == ""
MsgConflict == "409 Conflict"
MsgError == "error"
MsgNameError == "name 'timezone' is not defined"
MsgQueueFull == "Yubal queue full - try again later"
MsgTimeout == "Download timed out"
MsgNotFound == "Job not found in Yubal (may have been cleaned up)"
MsgYubalFailed == "Download failed in Yubal"
MsgCancelled == "Download cancelled"
MsgUserCancel == "Cancelled by user"
MsgForce == "Force completed by user"
MsgIntegrity == "UNIQUE constraint failed: album_downloads.ytmusic_album_id"
MsgIntegrityMapping ==
    "UNIQUE constraint failed: mbid_plex_mappings.recording_mbid"

VARIABLES
    utcAttr,      \* whether the expression datetime.UTC evaluates
    now,          \* wall clock
    jobs,         \* playlist_sync_jobs rows, id = index
    tms,          \* track_matches rows of each job, by position
    lastSynced,   \* listenbrainz_playlists.last_synced_at is set
    dls,          \* album_downloads rows by ytmusic_album_id
    mappings,     \* mbid_plex_mappings: plex_rating_key by recording_mbid
    dlOrder,      \* album ids of the existing rows, by created_at
    yjobs,        \* jobs of the remote queue created by this program, id = index
    foreign,      \* active jobs of other clients in the remote queue
    run,          \* the run_sync_job execution of each job
    retryTasks,   \* start_download background tasks not yet run
    resumeTasks,  \* resume_sync_job_async tasks not yet run
    loop,         \* update_download_statuses_loop: its task and iteration
    last,         \* what the last step did: operation, response, inputs
    names,        \* the last _names_match call: its arguments and answers
    migrate,      \* schema_migrations and the run_migrations execution
    request,      \* the last ListenBrainzClient._get call
    pass,         \* a submit_pending_downloads call on a table of three rows
    matcher,      \* the last _match_track call: what it read and returned
    resolver,     \* the last find_album_for_track call
    store         \* the tables a delete request works on

\* The rows, the remote queue and the executions of the sync service and
\* the web application.
service ==
    <<utcAttr, now, jobs, tms, lastSynced, dls, mappings, dlOrder, yjobs,
      foreign, run, retryTasks, resumeTasks, loop, last>>

\* The components that share no state with them.
standalone == <<names, migrate, request, pass, matcher, resolver, store>>

vars == <<service, standalone>>

\* ------------------------------------------------------------ migrations.py
\* Runs of run_migrations in the life of one database.
MaxRuns == 3

\* Migration.version
Versions == {1, 2, 3}

MaxMigrations == 3

\* The lists a run may be given.
MigrationLists == UNION {[1..n -> Versions] : n \in 0..MaxMigrations}

\* No row of schema_migrations is ever found.
never_applied(table, version) == FALSE

\* is_migration_applied(session, version)
is_migration_applied(table, version) == version \in table

\* The versions of list that a run starting with the rows of table applies,
\* in the order in which it applies them.
RECURSIVE Pending(_, _)
Pending(list, table) ==
    IF list = <<>> THEN <<>>
    ELSE IF Head(list) \in table THEN Pending(Tail(list), table)
    ELSE <<Head(list)>> \o Pending(Tail(list), table \cup {Head(list)})

\* A database on which run_migrations has never run.
NoMigrate ==
    [schema_migrations |-> {}, ups |-> [v \in Versions |-> 0],
     status |-> "idle", list |-> <<>>, pos |-> 0, before |-> {},
     order |-> <<>>, runs |-> 0]

\* run_migrations(session, migrations) up to the loop: the table is created
\* if it is missing.
run_migrations ==
    /\ migrate.status # "running"
    /\ migrate.runs < MaxRuns
    /\ \E list \in MigrationLists :
          migrate' = [migrate EXCEPT !.status = IF list = <<>> THEN "done"
                                                ELSE "running",
                                     !.list = list,
                                     !.pos = 0,
                                     !.before = migrate.schema_migrations,
                                     !.order = <<>>,
                                     !.runs = @ + 1]
    /\ UNCHANGED <<service, names, request, pass, matcher, resolver, store>>

\* One iteration of the loop of run_migrations: the migration is skipped,
\* or its up function runs and either returns, and the version is recorded,
\* or raises, and the session is rolled back and the exception raised again.
migration_step ==
    /\ migrate.status = "running"
    /\ LET k == migrate.pos + 1
           version == migrate.list[k]
           after == IF k = Len(migrate.list) THEN "done" ELSE "running"
       IN IF is_migration_applied(migrate.schema_migrations, version)
          THEN migrate' = [migrate EXCEPT !.pos = k, !.status = after]
          ELSE \E up \in {"returns", "raises"} :
                  IF up = "returns"
                  THEN migrate' =
                          [migrate EXCEPT
                              !.ups[version] = @ + 1,
                              !.schema_migrations = @ \cup {version},
                              !.order = Append(@, version),
                              !.pos = k,
                              !.status = after]
                  ELSE migrate' = [migrate EXCEPT !.status = "raised"]
    /\ UNCHANGED <<service, names, request, pass, matcher, resolver, store>>

\* ---------------------------------------------- clients/listenbrainz.py
\* The largest max_retries a client is built with (the default is 3).
MaxRetries == 4

\* What one self._client.get(...) with raise_for_status() and json() does:
\* it returns, or raises one of the three exceptions _get catches, or
\* another exception.
Attempts ==
    {"ok", "ConnectError", "TimeoutException", "HTTPStatusError", "other"}

\* No call of _get yet.
NoRequest ==
    [max_retries |-> 0, status |-> "idle", attempt |-> 0, calls |-> <<>>,
     sleeps |-> <<>>, raised |-> "", attempts_named |-> -1]

\* The handler sleeps after every failed attempt.
sleeps_always(attempt, max_retries) == TRUE

\* if attempt < self._max_retries - 1
sleeps_before_retry(attempt, max_retries) == attempt < max_retries - 1

\* The end of _get after the loop: "Failed to connect to ListenBrainz API
\* after {max_retries} attempts".
exhausted(r) ==
    [r EXCEPT !.status = "raised", !.raised = "ConnectError",
              !.attempts_named = r.max_retries]

\* _get(endpoint) up to the loop, for a client built with max_retries.
get ==
    /\ request.status # "attempting"
    /\ \E max_retries \in 0..MaxRetries :
          LET r == [NoRequest EXCEPT !.max_retries = max_retries,
                                     !.status = "attempting"]
          IN request' = IF max_retries = 0 THEN exhausted(r) ELSE r
    /\ UNCHANGED <<service, names, migrate, pass, matcher, resolver, store>>

\* One iteration of the loop of _get, with the sleep that follows a
\* connection error or a timeout, and the end of the loop after the last.
get_attempt ==
    /\ request.status = "attempting"
    /\ \E a \in Attempts :
          LET r == [request EXCEPT !.calls = Append(@, a)]
              slept ==
                  IF sleeps_before_retry(r.attempt, r.max_retries)
                  THEN [r EXCEPT !.sleeps = Append(@, 2 ^ r.attempt)]
                  ELSE r
              next == [slept EXCEPT !.attempt = @ + 1]
          IN request' =
                IF a = "ok" THEN [r EXCEPT !.status = "returned"]
                ELSE IF a \in {"HTTPStatusError", "other"}
                THEN [r EXCEPT !.status = "raised", !.raised = a]
                ELSE IF next.attempt < next.max_retries THEN next
                ELSE exhausted(next)
    /\ UNCHANGED <<service, names, migrate, pass, matcher, resolver, store>>

\* ------------------------------- clients/plex.py, clients/ytmusic.py: names
\* A name is the sequence of its characters.
LowerCase == ("T" :> "t") @@ ("B" :> "b") @@ ("S" :> "s") @@ ("A" :> "a")

\* The names of the repository's tests and of the matcher's documentation,
\* and names that exercise each step of the normalisation.
TheBeatles == <<"T", "h", "e", " ", "B", "e", "a", "t", "l", "e", "s">>
beatles == <<"b", "e", "a", "t", "l", "e", "s">>
TestSong == <<"T", "e", "s", "t", " ", "S", "o", "n", "g">>
test_song == <<"t", "e", "s", "t", " ", "s", "o", "n", "g">>
SongA == <<"S", "o", "n", "g", " ", "A">>
SongB == <<"S", "o", "n", "g", " ", "B">>

\* Every name of at most MaxNameLen characters over ShortChars.
MaxNameLen == 2

ShortChars == {"a", "B", " ", "!", "-"}

ShortNames == UNION {[1..n -> ShortChars] : n \in 0..MaxNameLen}

Names ==
    ShortNames \cup
    {TheBeatles, beatles, TestSong, test_song, SongA, SongB,
     <<"t", "h", "e", " ", "a">>, <<"T", "h", "e", " ", "!">>,
     <<" ", "T", "h", "e", " ", "a">>, <<"t", "h", "e">>,
     <<"a", " ", " ", "B">>, <<"a", "-", "B">>, <<"a", ".", "B">>}

\* str.lower()
lower(s) ==
    [i \in 1..Len(s) |-> IF s[i] \in DOMAIN LowerCase THEN LowerCase[s[i]]
                         ELSE s[i]]

RECURSIVE lstrip(_)
lstrip(s) == IF s # <<>> /\ Head(s) = " " THEN lstrip(Tail(s)) ELSE s

RECURSIVE rstrip(_)
rstrip(s) ==
    IF s # <<>> /\ s[Len(s)] = " " THEN rstrip(SubSeq(s, 1, Len(s) - 1))
    ELSE s

\* str.strip()
strip(s) == rstrip(lstrip(s))

\* name.startswith("the ")
startswith_the(s) == Len(s) >= 4 /\ SubSeq(s, 1, 4) = <<"t", "h", "e", " ">>

\* name.replace(char, "") for each char of chars
remove(s, chars) == SelectSeq(s, LAMBDA c : c \notin chars)

RECURSIVE collapse(_)
collapse(s) ==
    IF Len(s) < 2 THEN s
    ELSE IF s[1] = " " /\ s[2] = " " THEN collapse(Tail(s))
    ELSE <<s[1]>> \o collapse(Tail(s))

\* " ".join(name.split())
join_split(s) == strip(collapse(s))

\* a in b
contains(a, b) ==
    \E i \in 0..(Len(b) - Len(a)) : SubSeq(b, i + 1, i + Len(a)) = a

PlexPunctuation == {"'", "\"", ".", ",", "!", "?", "(", ")", "[", "]"}

YTMusicPunctuation == PlexPunctuation \cup {"-", ":"}

\* The name as it is, stripped.
normalize_name_keeps_case(name, chars) ==
    LET n == strip(name)
        m == IF startswith_the(n) THEN SubSeq(n, 5, Len(n)) ELSE n
    IN remove(m, chars)

\* The lines the two _normalize_name share: lower().strip(), the "the "
\* prefix, the punctuation.
normalize_name(name, chars) ==
    LET n == strip(lower(name))
        m == IF startswith_the(n) THEN SubSeq(n, 5, Len(n)) ELSE n
    IN remove(m, chars)

\* PlexClient._normalize_name
plex_normalize_name(name) == normalize_name(name, PlexPunctuation)

\* YTMusicResolver._normalize_name
ytmusic_normalize_name(name) ==
    join_split(normalize_name(name, YTMusicPunctuation))

\* n1 == n2 or n1 in n2 or n2 in n1
equal_or_contained(n1, n2) == n1 = n2 \/ contains(n1, n2) \/ contains(n2, n1)

\* PlexClient._names_match
plex_names_match(name1, name2) ==
    IF name1 = <<>> \/ name2 = <<>> THEN FALSE
    ELSE equal_or_contained(plex_normalize_name(name1),
                            plex_normalize_name(name2))

\* YTMusicResolver._names_match
ytmusic_names_match(name1, name2) ==
    IF name1 = <<>> \/ name2 = <<>> THEN FALSE
    ELSE equal_or_contained(ytmusic_normalize_name(name1),
                            ytmusic_normalize_name(name2))

\* No call of _names_match yet.
NoNames == [name1 |-> <<>>, name2 |-> <<>>, plex |-> FALSE, ytmusic |-> FALSE]

\* One call of each _names_match with the same two names.
names_match ==
    /\ \E name1 \in Names, name2 \in Names :
          names' = [name1 |-> name1, name2 |-> name2,
                    plex |-> plex_names_match(name1, name2),
                    ytmusic |-> ytmusic_names_match(name1, name2)]
    /\ UNCHANGED <<service, migrate, request, pass, matcher, resolver, store>>

\* ------------------------- clients/ytmusic.py: find_album_for_track
\* What a search of YTMusicResolver comes to: no result passes the name
\* tests, the search raises, or the first result that passes them is an
\* album whose get_album call returns its detail ("detailed") or fails
\* ("shallow").
Hits == {"none", "raises", "detailed", "shallow"}

\* None, and the AlbumInfo of strategy k, built from the album detail or
\* from the search result alone.
NoAlbum == [found |-> FALSE, detailed |-> FALSE, by |-> 0]

AlbumInfo(detailed, k) == [found |-> TRUE, detailed |-> detailed, by |-> k]

\* _fetch_album_details: the AlbumInfo of the album detail, None when
\* get_album raises or returns nothing.
fetch_album_details(hit, k) ==
    IF hit = "detailed" THEN AlbumInfo(TRUE, k) ELSE NoAlbum

\* _create_album_info: the detail when it is there, else the AlbumInfo of
\* the search result with the browse URL.
create_album_info(hit, k) ==
    LET full_album == fetch_album_details(hit, k)
    IN IF full_album.found THEN full_album ELSE AlbumInfo(FALSE, k)

\* _search_album returns what _create_album_info makes of the first result
\* that passes; a raised search is caught and gives None.
search_album(hit) ==
    IF hit \in {"none", "raises"} THEN NoAlbum ELSE create_album_info(hit, 1)

\* _search_song_get_album and _search_artist_albums return what
\* _fetch_album_details gives for the first result that passes.
search_song_get_album(hit) ==
    IF hit \in {"none", "raises"} THEN NoAlbum ELSE fetch_album_details(hit, 2)

search_artist_albums(hit) ==
    IF hit \in {"none", "raises"} THEN NoAlbum ELSE fetch_album_details(hit, 3)

\* find_album_for_track: album_name says whether the track names an album,
\* hits[k] is what the search of strategy k comes to.
find_album_for_track(album_name, hits) ==
    LET a1 == IF album_name THEN search_album(hits[1]) ELSE NoAlbum
        a2 == search_song_get_album(hits[2])
        a3 == IF album_name THEN search_artist_albums(hits[3]) ELSE NoAlbum
    IN IF a1.found THEN a1
       ELSE IF a2.found THEN a2
       ELSE IF a3.found THEN a3
       ELSE NoAlbum

\* --------------------------- database.py cascades, web/app.py deletes
\* The ids of the playlist_sync_jobs and track_matches rows of the tables.
StoreJobs == {1, 2}

StoreMatches == {1, 2, 3}

\* No tables loaded yet. jobs[j] is the playlist_id of job j and tms[t] the
\* sync_job_id and album_download_id of row t, 0 for a row that does not
\* exist and for a NULL album_download_id; downloads holds the ids of the
\* album_downloads rows; op, arg, code and rows tell the last request, its
\* argument and response and the track_matches rows it deleted.
NoStore ==
    [playlists |-> {}, jobs |-> <<0, 0>>,
     tms |-> [t \in StoreMatches |-> [job |-> 0, album |-> 0]],
     downloads |-> {}, op |-> "", arg |-> 0, code |-> 0, rows |-> 0]

\* The tables the application can have written: a job belongs to a playlist
\* that exists, a track_matches row to a job that exists, and a row links
\* to no download or to one that exists.
Stores ==
    {st \in [playlists : SUBSET Playlists,
             jobs : [StoreJobs -> {0} \cup Playlists],
             tms : [StoreMatches -> [job : {0} \cup StoreJobs,
                                     album : {0} \cup Albums]],
             downloads : SUBSET Albums,
             op : {"load"}, arg : {0}, code : {0}, rows : {0}] :
        /\ \A j \in StoreJobs : st.jobs[j] # 0 => st.jobs[j] \in st.playlists
        /\ \A t \in StoreMatches :
              /\ st.tms[t].job # 0 => st.jobs[st.tms[t].job] # 0
              /\ st.tms[t].job = 0 => st.tms[t].album = 0
              /\ st.tms[t].album # 0 => st.tms[t].album \in st.downloads}

\* The tables of a request are any of them.
store_load ==
    /\ store = NoStore
    /\ store' \in Stores
    /\ UNCHANGED <<service, names, migrate, request, pass, matcher, resolver>>

\* session.delete of the jobs of js: cascade="all, delete-orphan" of
\* PlaylistSyncJob.track_matches deletes their track_matches rows;
\* TrackMatch.album_download names no cascade.
delete_jobs(st, js) ==
    [st EXCEPT
        !.jobs = [j \in StoreJobs |-> IF j \in js THEN 0 ELSE @[j]],
        !.tms = [t \in StoreMatches |->
                    IF @[t].job \in js THEN [job |-> 0, album |-> 0]
                    ELSE @[t]],
        !.rows = Cardinality({t \in StoreMatches : st.tms[t].job \in js})]

\* session.delete(job) for a job that exists.
delete_sync_job(j) ==
    /\ store.op # ""
    /\ store.jobs[j] # 0
    /\ store' = [delete_jobs(store, {j}) EXCEPT
                    !.op = "delete_sync_job", !.arg = j, !.code = 0]
    /\ UNCHANGED <<service, names, migrate, request, pass, matcher, resolver>>

\* DELETE /api/playlists/{playlist_id}: 404 for no row; session.delete of
\* the playlist, whose cascade="all, delete-orphan" of sync_jobs deletes
\* its jobs.
delete_playlist(p) ==
    /\ store.op # ""
    /\ IF p \notin store.playlists
       THEN store' = [store EXCEPT !.op = "delete_playlist", !.arg = p,
                                   !.code = 404, !.rows = 0]
       ELSE store' =
              [delete_jobs(store, {j \in StoreJobs : store.jobs[j] = p}) EXCEPT
                  !.playlists = @ \ {p},
                  !.op = "delete_playlist", !.arg = p, !.code = 200]
    /\ UNCHANGED <<service, names, migrate, request, pass, matcher, resolver>>

\* Every album_downloads row taken for an orphan.
orphaned_downloads_all(st) == st.downloads

\* The outer join of album_downloads with track_matches filtered on
\* TrackMatch.id IS NULL: the rows no track_matches row links to.
orphaned_downloads(st) ==
    {a \in st.downloads : \A t \in StoreMatches : st.tms[t].album # a}

\* DELETE /api/downloads/orphaned
delete_orphaned_downloads ==
    /\ store.op # ""
    /\ store' = [store EXCEPT
                    !.downloads = @ \ orphaned_downloads(store),
                    !.op = "delete_orphaned_downloads",
                    !.arg = Cardinality(orphaned_downloads(store)),
                    !.code = 200, !.rows = 0]
    /\ UNCHANGED <<service, names, migrate, request, pass, matcher, resolver>>

\* No find_album_for_track call yet.
NoResolver ==
    [album_name |-> FALSE, hits |-> <<"none", "none", "none">>,
     r |-> NoAlbum, calls |-> 0]

\* One find_album_for_track call, over every outcome of the three
\* searches.
call_find_album_for_track ==
    /\ \E album_name \in BOOLEAN, hits \in [1..3 -> Hits] :
          resolver' = [album_name |-> album_name, hits |-> hits,
                       r |-> find_album_for_track(album_name, hits),
                       calls |-> 1]
    /\ UNCHANGED <<service, names, migrate, request, pass, matcher, store>>


\* ----------------------------------------------------------------- rows
\* PlaylistSyncJob(playlist_id=p) with the column defaults.
NewJob(p) ==
    [playlist_id |-> p, status |-> "pending", error_message |-> MsgNone,
     tracks_total |-> 0, tracks_matched |-> 0, tracks_missing |-> 0,
     plex_playlist_key |-> FALSE, started_at |-> FALSE, completed_at |-> FALSE]

\* AlbumDownload(...) with the column defaults; yubal_job_id 0 and
\* queued_at -1 stand for NULL.
NewDownload ==
    [status |-> "pending", yubal_job_id |-> 0, progress |-> 0,
     error_message |-> MsgNone, queued_at |-> -1, completed_at |-> FALSE]

\* TrackMatch(position, plex_rating_key, matched_in_plex, album_download_id);
\* 0 stands for NULL.
NewTrackMatch(position, key, album) ==
    [position |-> position, matched_in_plex |-> key # 0,
     plex_rating_key |-> key, album_download_id |-> album]

\* What the session of a run holds between the matching loop and its commit:
\* the outcome and the rating key of each position, the albums and the
\* recording ids it inserts as new rows.
NoSession == [out |-> <<>>, key |-> <<>>, created |-> {}, cached |-> {}]

\* A run_sync_job execution: where it is, the exception that ended it, the
\* rows of missing_tracks (indexes into the job's track_matches), the rows of
\* pending_downloads and the session.
NoRun ==
    [pc |-> "none", error |-> MsgNone, missing |-> {}, pending |-> {},
     session |-> NoSession]

NoOutcomes == [a \in Albums |-> "none"]

\* No _match_track call yet.
NoMatcher ==
    [cached |-> 0, library |-> {}, reach |-> "ok", found |-> 0, album |-> 0,
     r |-> [out |-> 0, key |-> 0, searched |-> FALSE], calls |-> 0]

\* No call on the table of three rows yet.
NoPass ==
    [order |-> <<>>, ds |-> <<>>, ys |-> <<>>, f |-> 0, o |-> <<>>,
     r |-> [ds |-> <<>>, ys |-> <<>>, n |-> 0, out |-> <<>>, seq |-> <<>>]]

\* A step that answers no request and submits nothing.
NoPositions == [i \in AllPositions |-> 0]

Quiet ==
    [op |-> "", arg |-> 0, code |-> 0, active |-> -1,
     out |-> [a \in Albums |-> "none"], hit |-> NoPositions, searched |-> {},
     resolved |-> {}, tracks |-> -1, library |-> {}, items |-> <<>>]

\* What a step did: the operation, its argument and response code; for a
\* submission the active remote jobs it counted and the outcome per album;
\* for the matching loop the cached rating key validated per position and
\* the positions searched in the library and resolved to an album; for the
\* playlist phase the number of library tracks collected, the rating keys
\* the library held and the positions of the tracks handed to
\* plex.create_playlist, in their order.
Did(op, arg, code) ==
    [op |-> op, arg |-> arg, code |-> code, active |-> -1, out |-> NoOutcomes,
     hit |-> NoPositions, searched |-> {}, resolved |-> {}, tracks |-> -1,
     library |-> {}, items |-> <<>>]

JobIds == 1..Len(jobs)

RemoteIds == 1..Len(yjobs)

Exists(a) == \E i \in 1..Len(dlOrder) : dlOrder[i] = a

\* Only FAILED is taken as a final status.
Terminal_failed_only(s) == s = "failed"

\* job.status in [SyncStatus.COMPLETED, SyncStatus.FAILED]
Terminal(s) == s \in {"completed", "failed"}

\* A sync job of playlist p with a status other than COMPLETED or FAILED.
HasActiveJob(js, p) ==
    \E j \in 1..Len(js) : js[j].playlist_id = p /\ ~Terminal(js[j].status)

\* len([j for j in all_jobs if j.status.is_active])
ActiveCount(ys, f) ==
    f + Cardinality({i \in 1..Len(ys) : is_active(ys[i].status)})

\* database.py and sync.py read the time as datetime.now(datetime.UTC) with
\* datetime bound to the class (from datetime import datetime), which has no
\* attribute UTC: the column defaults of created_at (database.py:72-211)
\* raise on every insert, against what the repository's tests expect of the
\* same rows. utcAttr is FALSE for the build in which the expression raises
\* (no sync job is ever stored) and TRUE for the build in which it yields the
\* time; every other step is written for both.
Init ==
    /\ utcAttr \in BOOLEAN
    /\ now = 0
    /\ jobs = <<>>
    /\ tms = <<>>
    /\ lastSynced = [p \in Playlists |-> FALSE]
    /\ dls = [a \in Albums |-> NewDownload]
    /\ mappings = [m \in Mbids |-> 0]
    /\ dlOrder = <<>>
    /\ yjobs = <<>>
    /\ foreign = 0
    /\ run = <<>>
    /\ retryTasks = {}
    /\ resumeTasks = {}
    /\ loop = [status |-> "running", beat |-> 0]
    /\ last = Quiet
    /\ names = NoNames
    /\ migrate = NoMigrate
    /\ request = NoRequest
    /\ pass = NoPass
    /\ matcher = NoMatcher
    /\ resolver = NoResolver
    /\ store = NoStore

\* ------------------------------------------------------ web/app.py handlers
\* POST /api/sync-jobs: the handler has no await, so the check for an active
\* job and PlaylistSyncService.create_sync_job run as one step of the loop.
create_sync_job(p) ==
    /\ IF HasActiveJob(jobs, p)
       THEN /\ last' = Did("create_sync_job", p, 409)
            /\ UNCHANGED <<jobs, tms, run>>
       ELSE IF ~utcAttr
       THEN \* the created_at default raises while the row is inserted
            /\ last' = Did("create_sync_job", p, 500)
            /\ UNCHANGED <<jobs, tms, run>>
       ELSE /\ Len(jobs) < MaxJobs
            /\ jobs' = Append(jobs, NewJob(p))
            /\ tms' = Append(tms, <<>>)
            /\ run' = Append(run, [NoRun EXCEPT !.pc = "queued"])
            /\ last' = Did("create_sync_job", p, 200)
    /\ UNCHANGED <<standalone, loop, utcAttr, now, lastSynced, dls, mappings, dlOrder, yjobs, foreign,
                   retryTasks, resumeTasks>>

\* POST /api/sync-jobs/{job_id}/cancel
cancel_sync_job(j) ==
    /\ j \in JobIds
    /\ IF Terminal(jobs[j].status)
       THEN /\ last' = Did("cancel_sync_job", j, 400)
            /\ UNCHANGED jobs
       ELSE /\ jobs' = [jobs EXCEPT ![j].status = "failed",
                                    ![j].error_message = MsgUserCancel,
                                    ![j].completed_at = TRUE]
            /\ last' = Did("cancel_sync_job", j, 200)
    /\ UNCHANGED <<standalone, loop, utcAttr, now, tms, lastSynced, dls, mappings, dlOrder, yjobs, foreign,
                   run, retryTasks, resumeTasks>>

\* POST /api/sync-jobs/{job_id}/complete. PlaylistSyncService has no
\* resume_sync_job_after_downloads: for a job in DOWNLOADING the call raises
\* AttributeError, which the handler turns into a 500.
force_complete_sync_job(j) ==
    /\ j \in JobIds
    /\ IF Terminal(jobs[j].status)
       THEN /\ last' = Did("force_complete_sync_job", j, 400)
            /\ UNCHANGED jobs
       ELSE IF jobs[j].status = "downloading"
       THEN /\ last' = Did("force_complete_sync_job", j, 500)
            /\ UNCHANGED jobs
       ELSE /\ jobs' = [jobs EXCEPT ![j].status = "failed",
                                    ![j].error_message = MsgForce,
                                    ![j].completed_at = TRUE]
            /\ last' = Did("force_complete_sync_job", j, 200)
    /\ UNCHANGED <<standalone, loop, utcAttr, now, tms, lastSynced, dls, mappings, dlOrder, yjobs, foreign,
                   run, retryTasks, resumeTasks>>

\* --------------------------------------- services/sync.py: run_sync_job
\* The except branch of run_sync_job: the job is marked FAILED and the
\* session is committed, together with whatever the session had pending.
FailedJob(row, msg) ==
    [row EXCEPT !.status = "failed", !.error_message = msg, !.completed_at = TRUE]

\* _update_job_status(session, job, status)
update_job_status(row, status) ==
    [row EXCEPT !.status = status,
                !.started_at = IF status # "pending" THEN TRUE ELSE @]

\* The executions of run_sync_job that hold a worker thread.
Running == {k \in JobIds : run[k].pc \notin {"none", "queued", "done"}}

\* Phase 1 begins: _update_job_status(FETCHING). With started_at NULL the
\* timestamp is read; when datetime.UTC does not evaluate, the except branch
\* raises in turn and the session is closed without a commit.
RunStartOf(j, workers) ==
    /\ j \in JobIds
    /\ run[j].pc = "queued"
    /\ Cardinality(Running) < workers
    /\ IF utcAttr \/ jobs[j].started_at
       THEN /\ jobs' = [jobs EXCEPT ![j] = update_job_status(@, "fetching")]
            /\ run' = [run EXCEPT ![j].pc = "fetching"]
       ELSE /\ run' = [run EXCEPT ![j].pc = "done", ![j].error = MsgError]
            /\ UNCHANGED jobs
    /\ last' = Quiet
    /\ UNCHANGED <<standalone, loop, utcAttr, now, tms, lastSynced, dls, mappings, dlOrder, yjobs, foreign,
                   retryTasks, resumeTasks>>

RunStart(j) == RunStartOf(j, MaxRunning)

\* lb.get_playlist(playlist.mbid), tracks_total, _update_job_status(MATCHING)
RunFetch(j) ==
    /\ j \in JobIds
    /\ run[j].pc = "fetching"
    /\ \E ok \in BOOLEAN :
        IF ok
        THEN /\ jobs' = [jobs EXCEPT
                    ![j] = update_job_status(
                        [@ EXCEPT !.tracks_total =
                            Cardinality(TrackPositions(jobs[j].playlist_id))],
                        "matching")]
             /\ run' = [run EXCEPT ![j].pc = "matching"]
        ELSE /\ jobs' = [jobs EXCEPT ![j] = FailedJob(@, MsgError)]
             /\ run' = [run EXCEPT ![j].pc = "done", ![j].error = MsgError]
    /\ last' = Quiet
    /\ UNCHANGED <<standalone, loop, utcAttr, now, tms, lastSynced, dls, mappings, dlOrder, yjobs, foreign,
                   retryTasks, resumeTasks>>

\* What _match_track does for one track: -3 the cached rating key is still
\* in the library, -2 it raises (get_track_by_rating_key and search_track let
\* a failure to reach the library through), -1 the library search finds the
\* track, 0 the track is missing and no album is resolved, a > 0 it is
\* missing and the resolver returns album a.
MatchOutcomes == {-3, -2, -1, 0} \cup Albums

\* The positions matched before the first one that raises.
Processed(ps, out) ==
    {i \in ps : \A k \in ps : k <= i => out[k] # -2}

\* plex.search_track runs for the position even when the cache has a valid
\* key for it.
searched_always(out, i) == out[i] # -2

\* plex.search_track ran for the position and returned.
searched(out, i) == out[i] \in {-1, 0} \cup Albums

\* ytmusic.find_album_for_track ran for the position.
resolved(out, i) == out[i] \in {0} \cup Albums

RECURSIVE AddDownloads(_, _, _)
\* The album_downloads rows in creation order after _match_track has run for
\* the positions of ps in increasing order: a row is created for an album
\* that has none (existing_download is None).
AddDownloads(order, ps, out) ==
    IF ps = {} THEN order
    ELSE LET i == CHOOSE x \in ps : \A y \in ps : x <= y
             has == \E k \in 1..Len(order) : order[k] = out[i]
         IN AddDownloads(
                IF out[i] > 0 /\ ~has THEN Append(order, out[i]) ELSE order,
                ps \ {i}, out)

\* The sets of rating keys the library can hold when it is asked.
Libraries == SUBSET RatingKeys

\* How the calls of one _match_track go: all return, or the first to raise
\* is get_track_by_rating_key (anything but NotFound and ValueError) or
\* search_track (_get_music_section stands outside its try blocks).
Reaches == {"ok", "fetch_raises", "search_raises"}

\* A lookup that takes every cached key for a live one.
get_track_always_found(library, rating_key) == rating_key

\* PlexClient.get_track_by_rating_key: the item of the key, 0 for the None
\* of a NotFound.
get_track_by_rating_key(library, rating_key) ==
    IF rating_key \in library THEN rating_key ELSE 0

\* The decision of _match_track on a track whose cache row holds the key
\* cached (0: no row), with the library holding the keys of library at the
\* lookup, search_track returning found (0: None) and the resolver
\* returning album (0: None): the outcome of MatchOutcomes, the rating key
\* of the TrackMatch and whether search_track was called.
match_track_outcome(cached, library, reach, found, album) ==
    IF cached # 0 /\ reach = "fetch_raises"
    THEN [out |-> -2, key |-> 0, searched |-> FALSE]
    ELSE IF cached # 0 /\ get_track_by_rating_key(library, cached) # 0
    THEN [out |-> -3, key |-> cached, searched |-> FALSE]
    ELSE IF reach = "search_raises"
    THEN [out |-> -2, key |-> 0, searched |-> TRUE]
    ELSE IF found # 0
    THEN [out |-> -1, key |-> found, searched |-> TRUE]
    ELSE [out |-> album, key |-> 0, searched |-> TRUE]

\* The outcomes and rating keys _match_track can return for a track whose
\* cache row holds the key cached, over all the library can answer.
match_track_outcomes(cached) ==
    {<<r.out, r.key>> :
        r \in {match_track_outcome(cached, library, reach, found, album) :
                  library \in Libraries, reach \in Reaches,
                  found \in {0} \cup RatingKeys, album \in {0} \cup Albums}}

\* One _match_track call on its own: every cache row, library, search
\* result and resolver answer.
call_match_track ==
    /\ \E cached, found \in {0} \cup RatingKeys, library \in Libraries,
          reach \in Reaches, album \in {0} \cup Albums :
          matcher' =
              [cached |-> cached, library |-> library, reach |-> reach,
               found |-> found, album |-> album,
               r |-> match_track_outcome(cached, library, reach, found, album),
               calls |-> 1]
    /\ UNCHANGED <<service, names, migrate, request, pass, resolver, store>>

\* _match_track: the TrackMatch row of position i
match_track(out, key, i) ==
    NewTrackMatch(i, IF out[i] \in {-3, -1} THEN key[i] ELSE 0,
                  IF out[i] > 0 THEN out[i] ELSE 0)

\* _cache_mbid_mapping for the tracks of playlist p the library search found
\* at the positions of ps.
cache_mbid_mapping(maps, p, ps, out, key) ==
    [m \in Mbids |->
        LET found == {i \in ps : recording_mbid(p, i) = m /\ out[i] = -1}
        IN IF found = {} THEN maps[m]
           ELSE key[CHOOSE i \in found : \A k \in found : k <= i]]

\* Phase 2, the loop over lb_playlist.tracks: what each _match_track reads
\* and decides. The rows it adds stay in the session of the run until the
\* commit; a row of album_downloads or of mbid_plex_mappings is inserted
\* when the session saw none for the album or the recording.
RunMatch(j) ==
    /\ j \in JobIds
    /\ run[j].pc = "matching"
    /\ LET p == jobs[j].playlist_id
           ps == TrackPositions(p)
       IN \E out \in [ps -> MatchOutcomes], key \in [ps -> {0} \cup RatingKeys] :
            LET done == Processed(ps, out)
            IN /\ \A i \in ps \ done : out[i] = -2
               /\ \A i \in ps :
                    <<out[i], key[i]>> \in
                        match_track_outcomes(mappings[recording_mbid(p, i)])
               /\ run' = [run EXCEPT
                      ![j].pc = "commit",
                      ![j].session =
                          [out |-> out, key |-> key,
                           created |-> {a \in Albums :
                               ~Exists(a) /\ \E i \in done : out[i] = a},
                           cached |-> {m \in Mbids :
                               /\ mappings[m] = 0
                               /\ \E i \in done :
                                    recording_mbid(p, i) = m /\ out[i] = -1}]]
    /\ last' = Quiet
    /\ UNCHANGED <<standalone, loop, utcAttr, now, jobs, tms, lastSynced, dls, mappings, dlOrder,
                   yjobs, foreign, retryTasks, resumeTasks>>

\* The insert of a row that another session has committed in the meantime
\* breaks the unique index of album_downloads.ytmusic_album_id or of
\* mbid_plex_mappings.recording_mbid. It fails in a flush inside the loop
\* (session.flush() after the album row, the autoflush of the next track's
\* queries for a mapping row) ...
flush_violation(p, s) ==
    \/ \E a \in s.created : Exists(a)
    \/ \E m \in s.cached : mappings[m] # 0 /\
          \E i \in DOMAIN s.out :
              recording_mbid(p, i) = m /\ s.out[i] = -1 /\ i < Len(s.out)

\* ... or, for the mapping row of the last track, in the commit.
commit_violation(p, s) ==
    \E m \in s.cached : mappings[m] # 0

\* The end of the loop: the commit of the rows and counters, then
\* _update_job_status(DOWNLOADING) or, with no missing track,
\* _update_job_status(CREATING_PLAYLIST). An exception of a track ends the
\* loop in the except branch, which commits FAILED together with the rows of
\* the tracks before it. After a failed flush the session accepts no commit
\* (PendingRollbackError), the except branch raises in turn and nothing is
\* stored; after a failed commit the session is rolled back and the except
\* branch stores FAILED.
RunMatchCommit(j) ==
    /\ j \in JobIds
    /\ run[j].pc = "commit"
    /\ LET p == jobs[j].playlist_id
           ps == TrackPositions(p)
           s == run[j].session
           done == Processed(ps, s.out)
           base == Len(tms[j])
           rows == [i \in 1..Cardinality(done) |-> match_track(s.out, s.key, i)]
           matched == {i \in done : s.out[i] \in {-3, -1}}
           missing == {base + i : i \in done \ matched}
           raised == done # ps
           log == [Did("match_tracks", j, IF raised THEN 500 ELSE 0) EXCEPT
                      !.hit = [i \in AllPositions |->
                                  IF i \in done /\ s.out[i] = -3 THEN s.key[i]
                                  ELSE 0],
                      !.searched = {i \in done : searched(s.out, i)},
                      !.resolved = {i \in done : resolved(s.out, i)}]
       IN IF flush_violation(p, s)
          THEN /\ run' = [run EXCEPT
                      ![j] = [NoRun EXCEPT
                          !.pc = "done",
                          !.error = IF \E a \in s.created : Exists(a)
                                    THEN MsgIntegrity
                                    ELSE MsgIntegrityMapping]]
               /\ last' = Did("match_tracks", j, 500)
               /\ UNCHANGED <<jobs, tms, dlOrder, mappings>>
          ELSE IF commit_violation(p, s)
          THEN /\ jobs' = [jobs EXCEPT ![j] = FailedJob(@, MsgIntegrityMapping)]
               /\ run' = [run EXCEPT
                      ![j] = [NoRun EXCEPT !.pc = "done",
                                           !.error = MsgIntegrityMapping]]
               /\ last' = Did("match_tracks", j, 500)
               /\ UNCHANGED <<tms, dlOrder, mappings>>
          ELSE /\ tms' = [tms EXCEPT ![j] = @ \o rows]
               /\ dlOrder' = AddDownloads(dlOrder, done, s.out)
               /\ mappings' = cache_mbid_mapping(mappings, p, done, s.out, s.key)
               /\ last' = log
               /\ IF raised
                  THEN /\ jobs' = [jobs EXCEPT ![j] = FailedJob(@, MsgError)]
                       /\ run' = [run EXCEPT
                              ![j] = [NoRun EXCEPT !.pc = "done",
                                                   !.error = MsgError]]
                  ELSE /\ jobs' = [jobs EXCEPT
                              ![j] = update_job_status(
                                  [@ EXCEPT
                                      !.tracks_matched = Cardinality(matched),
                                      !.tracks_missing = Cardinality(missing)],
                                  IF missing # {} THEN "downloading"
                                  ELSE "creating_playlist")]
                       /\ run' = [run EXCEPT
                              ![j] = [NoRun EXCEPT
                                  !.pc = IF missing # {} THEN "submit"
                                         ELSE "creating",
                                  !.missing = missing]]
    /\ UNCHANGED <<standalone, loop, utcAttr, now, lastSynced, dls, yjobs, foreign, retryTasks,
                   resumeTasks>>

\* ------------------------------ services/sync.py: _download_missing_albums
\* albums_to_download: the PENDING rows linked to the missing tracks, in the
\* order of the tracks.
RECURSIVE AlbumsToDownload(_, _, _)
AlbumsToDownload(j, ps, acc) ==
    IF ps = {} THEN acc
    ELSE LET i == CHOOSE x \in ps : \A y \in ps : x <= y
             a == tms[j][i].album_download_id
             take == /\ a # 0
                     /\ Exists(a)
                     /\ dls[a].status = "pending"
                     /\ \A k \in 1..Len(acc) : acc[k] # a
         IN AlbumsToDownload(j, ps \ {i}, IF take THEN Append(acc, a) ELSE acc)

\* yubal.create_job(url): the remote queue accepts the job ("ok"), refuses
\* it as full ("conflict") or the call fails otherwise ("error").
SubmitOutcomes == {"ok", "conflict", "error"}

SubmitMsg(o) == IF o = "conflict" THEN MsgConflict ELSE MsgError

\* The try block of the submission loop for one row. After create_job the
\* row gets the job id and QUEUED, then queued_at is read through the name
\* timezone, which sync.py never imports: the NameError lands in the except
\* branch, which marks the row FAILED and commits what was assigned.
sync_submit_row(row, o, id) ==
    IF o = "ok"
    THEN [row EXCEPT !.yubal_job_id = id, !.status = "failed",
                     !.error_message = MsgNameError]
    ELSE [row EXCEPT !.status = "failed", !.error_message = SubmitMsg(o)]

RECURSIVE SyncSubmit(_, _, _, _)
\* The submission loop over albums_to_download: the rows and the remote queue
\* it leaves.
SyncSubmit(as, out, ds, ys) ==
    IF as = <<>> THEN [ds |-> ds, ys |-> ys]
    ELSE LET a == Head(as)
             ok == out[a] = "ok"
             ys2 == IF ok THEN Append(ys, [url |-> a, status |-> "pending"])
                    ELSE ys
         IN SyncSubmit(
                Tail(as), out,
                [ds EXCEPT ![a] = sync_submit_row(@, out[a], Len(ys2))], ys2)

SeqRange(s) == {s[k] : k \in 1..Len(s)}

\* Phase 3 up to the wait: every collected row is submitted, whatever the
\* remote queue holds.
RunSubmit(j) ==
    /\ j \in JobIds
    /\ run[j].pc = "submit"
    /\ LET as == AlbumsToDownload(j, run[j].missing, <<>>)
       IN \E out \in [Albums -> SubmitOutcomes] :
            LET r == SyncSubmit(as, out, dls, yjobs)
                pending == {a \in SeqRange(as) : r.ds[a].yubal_job_id # 0}
            IN /\ \A a \in Albums : a \notin SeqRange(as) => out[a] = "error"
               /\ Len(r.ys) <= MaxRemote
               /\ dls' = r.ds
               /\ yjobs' = r.ys
               /\ run' = [run EXCEPT
                      ![j].pc = IF pending = {} THEN "rematch" ELSE "polling",
                      ![j].pending = pending]
               /\ last' = [Did("download_missing_albums", j, 0) EXCEPT
                      !.active = ActiveCount(yjobs, foreign),
                      !.out = [a \in Albums |->
                                  IF a \in SeqRange(as) THEN out[a] ELSE "none"]]
    /\ UNCHANGED <<standalone, loop, utcAttr, now, jobs, tms, lastSynced, mappings, dlOrder, foreign,
                   retryTasks, resumeTasks>>

\* job.progress of a remote job, in percent, as its status tells it.
job_progress(st) ==
    IF st = "completed" THEN 100
    ELSE IF st \in {"pending", "fetching_info"} THEN 0
    ELSE 50

\* One pass of the for loop inside "while pending_downloads" for one row:
\* yubal.get_job(download.yubal_job_id) and the status it maps to. A job
\* that is not in the remote list makes get_job raise; the except branch
\* logs it and the row stays in pending_downloads.
poll_row(row) ==
    LET id == row.yubal_job_id
        st == IF id \in RemoteIds THEN yjobs[id].status ELSE "gone"
        r == [row EXCEPT !.progress = job_progress(st)]
    IN IF st = "gone" THEN row
       ELSE IF st = "completed"
       THEN [r EXCEPT !.status = "completed", !.completed_at = TRUE]
       ELSE IF st = "failed"
       THEN [r EXCEPT !.status = "failed", !.error_message = MsgYubalFailed]
       ELSE IF st = "cancelled"
       THEN [r EXCEPT !.status = "failed", !.error_message = MsgCancelled]
       ELSE [r EXCEPT !.status = "downloading"]

\* The row leaves pending_downloads when its remote job is finished.
poll_done(row) ==
    /\ row.yubal_job_id \in RemoteIds
    /\ is_finished(yjobs[row.yubal_job_id].status)

RunPoll(j) ==
    /\ j \in JobIds
    /\ run[j].pc = "polling"
    /\ dls' = [a \in Albums |->
                  IF a \in run[j].pending THEN poll_row(dls[a]) ELSE dls[a]]
    /\ LET rest == {a \in run[j].pending : ~poll_done(dls[a])}
       IN run' = [run EXCEPT
              ![j].pc = IF rest = {} THEN "rematch" ELSE "polling",
              ![j].pending = rest]
    /\ last' = Quiet
    /\ UNCHANGED <<standalone, loop, utcAttr, now, jobs, tms, lastSynced, mappings, dlOrder, yjobs, foreign,
                   retryTasks, resumeTasks>>

\* The counters of the job left as the matching loop set them.
rematch_counters_stale(row, n) == row

\* job.tracks_matched += 1 and job.tracks_missing -= 1 for each of the n
\* tracks the re-match finds.
rematch_counters(row, n) ==
    [row EXCEPT !.tracks_matched = @ + n, !.tracks_missing = @ - n]

\* The missing tracks with a download, whatever its status.
rematch_candidates_any_status(j) ==
    {i \in run[j].missing :
        /\ tms[j][i].album_download_id # 0
        /\ Exists(tms[j][i].album_download_id)}

\* "if track_match.album_download:" and "if download.status ==
\* DownloadStatus.COMPLETED:": the missing tracks the re-match searches.
rematch_candidates(j) ==
    {i \in run[j].missing :
        /\ tms[j][i].album_download_id # 0
        /\ Exists(tms[j][i].album_download_id)
        /\ dls[tms[j][i].album_download_id].status = "completed"}

\* plex.refresh_library(), the re-match of the missing tracks whose download
\* is COMPLETED, the commit, and _update_job_status(CREATING_PLAYLIST).
RunRematch(j) ==
    /\ j \in JobIds
    /\ run[j].pc = "rematch"
    /\ \E ok \in BOOLEAN :
        IF ok
        THEN LET cand == rematch_candidates(j)
             IN \E found \in SUBSET cand, key \in RatingKeys :
                  /\ tms' = [tms EXCEPT ![j] =
                         [i \in 1..Len(@) |->
                             IF i \in found
                             THEN [@[i] EXCEPT !.matched_in_plex = TRUE,
                                               !.plex_rating_key = key]
                             ELSE @[i]]]
                  /\ mappings' =
                         [m \in Mbids |->
                             IF \E i \in found :
                                  recording_mbid(jobs[j].playlist_id,
                                                 tms[j][i].position) = m
                             THEN key ELSE mappings[m]]
                  /\ jobs' = [jobs EXCEPT
                         ![j] = update_job_status(
                             rematch_counters(@, Cardinality(found)),
                             "creating_playlist")]
                  /\ run' = [run EXCEPT ![j] = [NoRun EXCEPT !.pc = "creating"]]
        ELSE /\ jobs' = [jobs EXCEPT ![j] = FailedJob(@, MsgError)]
             /\ run' = [run EXCEPT ![j].pc = "done", ![j].error = MsgError]
             /\ UNCHANGED <<tms, mappings>>
    /\ last' = Quiet
    /\ UNCHANGED <<standalone, loop, utcAttr, now, lastSynced, dls, dlOrder, yjobs, foreign,
                   retryTasks, resumeTasks>>

\* plex.create_playlist runs whatever plex_tracks holds.
playlist_created_always(plex_tracks) == TRUE

\* "if plex_tracks:"
playlist_created(plex_tracks) == plex_tracks # <<>>

\* The loop without the lookup of the rating key in the library.
plex_tracks_unchecked(rows, library) ==
    SelectSeq(rows, LAMBDA t : t.matched_in_plex /\ t.plex_rating_key # 0)

\* "for track_match in job.track_matches": the rows of the job in the order
\* of their ids (the relationship names no order; the rows were inserted in
\* the order of the positions) that are matched, hold a rating key and
\* whose rating key the library still returns.
plex_tracks(rows, library) ==
    SelectSeq(rows, LAMBDA t :
        /\ t.matched_in_plex
        /\ t.plex_rating_key # 0
        /\ get_track_by_rating_key(library, t.plex_rating_key) # 0)

\* Phase 4: the matched tracks still in the library are collected; with any,
\* plex.create_playlist runs and its key is recorded; then
\* _update_job_status(COMPLETED) commits.
RunCreate(j) ==
    /\ j \in JobIds
    /\ run[j].pc = "creating"
    /\ \E ok \in BOOLEAN :
        IF ok
        THEN \E library \in Libraries :
             LET alive == plex_tracks(tms[j], library)
             IN
               /\ jobs' = [jobs EXCEPT
                      ![j] = update_job_status(
                          [@ EXCEPT !.plex_playlist_key =
                                        @ \/ playlist_created(alive)],
                          "completed")]
               /\ run' = [run EXCEPT ![j].pc = "stamp"]
               /\ last' = [Did("create_playlist", j, 0) EXCEPT
                      !.tracks = Len(alive),
                      !.library = library,
                      !.items = [k \in 1..Len(alive) |-> alive[k].position]]
        ELSE /\ jobs' = [jobs EXCEPT ![j] = FailedJob(@, MsgError)]
             /\ run' = [run EXCEPT ![j].pc = "done", ![j].error = MsgError]
             /\ last' = Did("create_playlist", j, 500)
    /\ UNCHANGED <<standalone, loop, utcAttr, now, tms, lastSynced, dls, mappings, dlOrder, yjobs, foreign,
                   retryTasks, resumeTasks>>

\* completed_at and playlist.last_synced_at, and the last commit.
RunStamp(j) ==
    /\ j \in JobIds
    /\ run[j].pc = "stamp"
    /\ jobs' = [jobs EXCEPT ![j].completed_at = TRUE]
    /\ lastSynced' = [lastSynced EXCEPT ![jobs[j].playlist_id] = TRUE]
    /\ run' = [run EXCEPT ![j].pc = "done"]
    /\ last' = Quiet
    /\ UNCHANGED <<standalone, loop, utcAttr, now, tms, dls, mappings, dlOrder, yjobs, foreign, retryTasks,
                   resumeTasks>>

\* run_sync_job(job_id) called for a job whose earlier execution has ended:
\* the method takes any job id and reads no status before it starts over.
\* No more than two executions store rows for a job.
run_sync_job(j) ==
    /\ j \in JobIds
    /\ run[j].pc = "done"
    /\ Len(tms[j]) <= Cardinality(TrackPositions(jobs[j].playlist_id))
    /\ run' = [run EXCEPT ![j] = [NoRun EXCEPT !.pc = "queued"]]
    /\ last' = Did("run_sync_job", j, 0)
    /\ UNCHANGED <<standalone, loop, utcAttr, now, jobs, tms, lastSynced, dls, mappings, dlOrder,
                   yjobs, foreign, retryTasks, resumeTasks>>

\* ------------------------------------------- web/app.py: retry_download
\* POST /api/downloads/{download_id}/retry: only a FAILED row is reset; the
\* reset leaves yubal_job_id and queued_at as they are.
\* The reset without "download.progress = 0".
retry_reset_keeps_progress(row) ==
    [row EXCEPT !.status = "pending", !.error_message = MsgNone,
                !.completed_at = FALSE]

retry_reset(row) ==
    [row EXCEPT !.status = "pending", !.progress = 0,
                !.error_message = MsgNone, !.completed_at = FALSE]

retry_download(a) ==
    /\ Exists(a)
    /\ IF dls[a].status # "failed"
       THEN /\ last' = Did("retry_download", a, 400)
            /\ UNCHANGED <<dls, retryTasks>>
       ELSE /\ dls' = [dls EXCEPT ![a] = retry_reset(@)]
            /\ retryTasks' = retryTasks \cup {a}
            /\ last' = Did("retry_download", a, 200)
    /\ UNCHANGED <<standalone, loop, utcAttr, now, jobs, tms, lastSynced, mappings, dlOrder, yjobs, foreign,
                   run, resumeTasks>>

\* The list of remote jobs is never searched.
existing_job_unsearched(ys, a) == 0

\* next((j for j in all_jobs if j.url == url), None): 0 when there is none.
existing_job(ys, a) ==
    LET hits == {i \in 1..Len(ys) : ys[i].status # "gone" /\ ys[i].url = a}
    IN IF hits = {} THEN 0 ELSE CHOOSE i \in hits : \A k \in hits : i <= k

\* d.status = QUEUED; d.yubal_job_id = id; d.queued_at = now
queued_row(row, id, t) ==
    [row EXCEPT !.status = "queued", !.yubal_job_id = id, !.queued_at = t]

\* retry_download.start_download, the background task: create_job, and on a
\* 409 the search for an existing remote job of the same URL; without one,
\* or on any other failure, the row is marked FAILED.
start_download(a) ==
    /\ a \in retryTasks
    /\ retryTasks' = retryTasks \ {a}
    /\ \E o \in SubmitOutcomes, listOk \in BOOLEAN :
        LET ex == IF listOk THEN existing_job(yjobs, a) ELSE 0
        IN /\ o # "conflict" => listOk
           /\ IF o = "ok"
              THEN /\ Len(yjobs) < MaxRemote
                   /\ yjobs' = Append(yjobs, [url |-> a, status |-> "pending"])
                   /\ dls' = [dls EXCEPT ![a] = queued_row(@, Len(yjobs) + 1, now)]
              ELSE IF o = "conflict" /\ ex # 0
              THEN /\ dls' = [dls EXCEPT ![a] = queued_row(@, ex, now)]
                   /\ UNCHANGED yjobs
              ELSE /\ dls' = [dls EXCEPT
                          ![a].status = "failed",
                          ![a].error_message =
                              IF o = "conflict" THEN MsgQueueFull ELSE MsgError]
                   /\ UNCHANGED yjobs
           /\ last' = [Did("start_download", a, 0) EXCEPT
                  !.active = ActiveCount(yjobs, foreign),
                  !.out = [NoOutcomes EXCEPT ![a] = o]]
    /\ UNCHANGED <<standalone, loop, utcAttr, now, jobs, tms, lastSynced, mappings, dlOrder, foreign, run,
                   resumeTasks>>

\* --------------------------- web/app.py: update_download_statuses_loop
\* The rows a tick works on: PENDING, QUEUED or DOWNLOADING with a remote
\* job id.
active_downloads ==
    {a \in Albums :
        /\ Exists(a)
        /\ dls[a].status \in {"pending", "queued", "downloading"}
        /\ dls[a].yubal_job_id # 0}

\* The timeout taken at 7200 seconds already.
timed_out_inclusive(row) ==
    /\ row.status = "downloading"
    /\ row.queued_at # -1
    /\ now - row.queued_at >= download_timeout

\* time_downloading > 7200 for a DOWNLOADING row with queued_at set
timed_out(row) ==
    /\ row.status = "downloading"
    /\ row.queued_at # -1
    /\ now - row.queued_at > download_timeout

\* jobs_by_id.get(download.yubal_job_id): "gone" when the list has no such job
remote_status(row) ==
    IF row.yubal_job_id \in RemoteIds THEN yjobs[row.yubal_job_id].status
    ELSE "gone"

\* The body with every finished remote job taken for a completed one.
update_row_finished_is_completed(row) ==
    LET st == remote_status(row)
    IN IF timed_out(row)
       THEN [row EXCEPT !.status = "failed", !.error_message = MsgTimeout]
       ELSE IF st = "gone"
       THEN IF row.status = "downloading"
            THEN [row EXCEPT !.status = "failed", !.error_message = MsgNotFound]
            ELSE row
       ELSE IF is_finished(st)
       THEN [row EXCEPT !.progress = job_progress(st), !.status = "completed",
                        !.completed_at = TRUE]
       ELSE [row EXCEPT !.progress = job_progress(st), !.status = "downloading"]

\* The body of "for download in active_downloads" for one row.
update_row(row) ==
    LET st == remote_status(row)
        r == [row EXCEPT !.progress = job_progress(st)]
    IN IF timed_out(row)
       THEN [row EXCEPT !.status = "failed", !.error_message = MsgTimeout]
       ELSE IF st = "gone"
       THEN IF row.status = "downloading"
            THEN [row EXCEPT !.status = "failed", !.error_message = MsgNotFound]
            ELSE row
       ELSE IF st = "completed"
       THEN [r EXCEPT !.status = "completed", !.completed_at = TRUE]
       ELSE IF st = "failed"
       THEN [r EXCEPT !.status = "failed", !.error_message = MsgYubalFailed]
       ELSE IF st = "cancelled"
       THEN [r EXCEPT !.status = "failed", !.error_message = MsgCancelled]
       ELSE [r EXCEPT !.status = "downloading"]

\* Whether the body adds one to updated_count for the row.
counts_updated(row) ==
    \/ timed_out(row)
    \/ remote_status(row) = "gone" /\ row.status = "downloading"
    \/ is_finished(remote_status(row))

\* The rows after the update loop and its commit.
updated_rows ==
    [a \in Albums |->
        IF a \in active_downloads THEN update_row(dls[a]) ELSE dls[a]]

\* ------------------------------------- web/app.py: submit_pending_downloads
Take(s, n) == SubSeq(s, 1, IF n < Len(s) THEN n ELSE Len(s))

\* The query ordered by id instead of created_at.
pending_query_by_id(order, ds) ==
    LET sel(a) == ds[a].status = "pending" /\ ds[a].yubal_job_id = 0
    IN Take(SelectSeq(SortSeq(order, LAMBDA x, y : x < y), sel), pending_limit)

\* The query of submit_pending_downloads: PENDING rows without a remote job
\* id, ordered by created_at, at most 20.
pending_query(order, ds) ==
    LET sel(a) == ds[a].status = "pending" /\ ds[a].yubal_job_id = 0
    IN Take(SelectSeq(order, sel), pending_limit)

\* The query on the rows of the database, dlOrder being their order by
\* created_at.
pending_downloads(ds) == pending_query(dlOrder, ds)

\* The slots counted against the remote queue's hard limit of 20 instead of
\* the ceiling.
available_slots_hard_limit(active) ==
    IF 20 - active > 0 THEN 20 - active ELSE 0

\* available_slots = max(0, max_queue_size - current_queue_size)
available_slots(active) ==
    IF max_queue_size - active > 0 THEN max_queue_size - active ELSE 0

RECURSIVE submit_loop(_, _, _, _)
\* "for download in pending_downloads[:available_slots]": snap is all_jobs as
\* fetched before the loop, o the outcome of create_job for each row, acc the
\* rows of the session, the remote queue, the count submitted, what was done
\* with each row and the rows in the order in which the loop took them up.
\* A 409 leaves the loop.
submit_loop(sel, o, snap, acc) ==
    IF sel = <<>> THEN acc
    ELSE LET a == Head(sel)
             ex == existing_job(snap, a)
         IN IF ex # 0
            THEN submit_loop(Tail(sel), o, snap,
                    [acc EXCEPT !.ds[a] = queued_row(@, ex, now),
                                !.n = @ + 1, !.out[a] = "linked",
                                !.seq = Append(@, a)])
            ELSE IF o[a] = "ok"
            THEN submit_loop(Tail(sel), o, snap,
                    [acc EXCEPT
                        !.ys = Append(@, [url |-> a, status |-> "pending"]),
                        !.ds[a] = queued_row(@, Len(acc.ys) + 1, now),
                        !.n = @ + 1, !.out[a] = "ok",
                        !.seq = Append(@, a)])
            ELSE IF o[a] = "conflict"
            THEN [acc EXCEPT !.out[a] = "conflict", !.seq = Append(@, a)]
            ELSE submit_loop(Tail(sel), o, snap,
                    [acc EXCEPT !.ds[a].status = "failed",
                                !.ds[a].error_message = MsgError,
                                !.out[a] = "error",
                                !.seq = Append(@, a)])

\* The commit "if submitted > 0" of submit_pending_downloads: without it the
\* database keeps the rows as they were before the call.
submit_commit(before, acc) == IF acc.n > 0 THEN acc.ds ELSE before

\* submit_pending_downloads(session, config) on the rows ds: what the session
\* holds when it returns (ds), the count submitted (n), the remote queue (ys)
\* and what was done with each row (out).
submit_pass(order, ds, ys, f, listOk, o) ==
    LET start == [ds |-> ds, ys |-> ys, n |-> 0,
                  out |-> [a \in DOMAIN ds |-> "none"], seq |-> <<>>]
        slots == available_slots(ActiveCount(ys, f))
    IN IF pending_query(order, ds) = <<>> \/ ~listOk \/ slots = 0
       THEN start
       ELSE submit_loop(Take(pending_query(order, ds), slots), o, ys, start)

\* The call of the status loop, on the rows of its session and the remote
\* queue as it is.
submit_pending_downloads(ds, listOk, o) ==
    submit_pass(dlOrder, ds, yjobs, foreign, listOk, o)

\* check_and_resume_sync_jobs(session): the jobs in DOWNLOADING with at least
\* one linked download, all of them COMPLETED or FAILED in the session.
jobs_to_resume(ds) ==
    {j \in JobIds :
        /\ jobs[j].status = "downloading"
        /\ \E i \in 1..Len(tms[j]) : tms[j][i].album_download_id # 0
        /\ \A i \in 1..Len(tms[j]) :
              tms[j][i].album_download_id # 0 =>
                  Terminal(ds[tms[j][i].album_download_id].status)}

\* ------------------- submit_pending_downloads on a table of three rows
\* The ids of the rows of album_downloads.
PassAlbums == {1, 2, 3}

\* The orders of the three rows by created_at.
PassOrders ==
    {p \in [1..3 -> PassAlbums] : \A a \in PassAlbums : \E i \in 1..3 : p[i] = a}

\* A row the status loop finds active: QUEUED in remote job 1.
ActiveRow == queued_row(NewDownload, 1, 0)

\* A row whose submission has failed.
FailedRow ==
    [NewDownload EXCEPT !.status = "failed", !.error_message = MsgError]

\* The tables a call of the status loop finds: one active row, the others
\* PENDING without a remote job id or FAILED.
PassTables ==
    {t \in [PassAlbums -> {NewDownload, ActiveRow, FailedRow}] :
        Cardinality({a \in PassAlbums : t[a] = ActiveRow}) = 1}

\* The remote job of the active row, and perhaps the job of another row
\* that no row records.
PassRemote(t) ==
    LET act == CHOOSE a \in PassAlbums : t[a] = ActiveRow
        first == <<[url |-> act, status |-> "downloading"]>>
    IN {first} \cup
       {Append(first, [url |-> a, status |-> "pending"]) :
           a \in PassAlbums \ {act}}

\* One call of submit_pending_downloads by the status loop, on any of the
\* tables, orders and remote queues above, with 0, 16 or 17 active jobs of
\* other clients and any outcome of create_job for each row.
call_submit_pending_downloads ==
    /\ utcAttr
    /\ \E order \in PassOrders, t \in PassTables, f \in {0, 16, 17},
          o \in [PassAlbums -> SubmitOutcomes] :
          \E ys \in PassRemote(t) :
              pass' = [order |-> order, ds |-> t, ys |-> ys, f |-> f, o |-> o,
                       r |-> submit_pass(order, t, ys, f, TRUE, o)]
    /\ UNCHANGED <<service, names, migrate, request, matcher, resolver, store>>


\* An exception of the loop body ends the task.
loop_after_crash(failed) == IF failed THEN "crashed" ELSE "running"

\* "except Exception" inside "while True": the exception is logged and the
\* loop goes on to its next iteration.
loop_after(failed) == "running"

\* One pass of the loop body after the sleep. With no active row the tick
\* ends at once ("continue"); when list_jobs raises it ends in the except
\* branch. Otherwise the active rows are brought up to date and committed,
\* submit_pending_downloads runs, and when an update was counted
\* check_and_resume_sync_jobs schedules the resumes; session.close() drops
\* what was not committed. When the commit of submit_pending_downloads
\* fails (commitOk is FALSE), the function logs the error and returns: the
\* remote jobs it created exist, the rows are as they were before the call.
TickWith(listOk, subOk, o, commitOk) ==
    /\ loop.status = "running"
    /\ IF active_downloads # {} /\ listOk
       THEN LET r == submit_pending_downloads(updated_rows, subOk, o)
                updated == \E a \in active_downloads : counts_updated(dls[a])
                session == IF commitOk THEN r.ds ELSE updated_rows
            IN /\ Len(r.ys) <= MaxRemote
               /\ commitOk \/ r.n > 0
               /\ dls' = IF commitOk THEN submit_commit(updated_rows, r)
                         ELSE updated_rows
               /\ yjobs' = r.ys
               /\ resumeTasks' =
                      IF updated THEN resumeTasks \cup jobs_to_resume(session)
                      ELSE resumeTasks
               /\ last' = [Did("tick", r.n, 0) EXCEPT
                      !.active = IF pending_downloads(updated_rows) # <<>> /\ subOk
                                 THEN ActiveCount(yjobs, foreign) ELSE -1,
                      !.out = r.out]
       ELSE /\ commitOk
            /\ last' = Did("tick", 0, IF active_downloads = {} THEN 0 ELSE 500)
            /\ UNCHANGED <<dls, yjobs, resumeTasks>>
    /\ loop' = [status |-> loop_after(last'.code # 0), beat |-> 1 - loop.beat]
    /\ UNCHANGED <<standalone, utcAttr, now, jobs, tms, lastSynced, mappings, dlOrder, foreign, run,
                   retryTasks>>

\* A tick with any answers of the remote queue: whether list_jobs succeeds
\* in the loop (listOk) and in submit_pending_downloads (subOk), and what
\* create_job does for each row (o). Answers that are never asked for are
\* fixed. Every commit of the tick succeeds.
Tick ==
    \E listOk \in BOOLEAN, subOk \in BOOLEAN, o \in [Albums -> SubmitOutcomes] :
        /\ IF active_downloads # {} /\ listOk
           THEN pending_downloads(updated_rows) = <<>> => subOk
           ELSE /\ active_downloads = {} => listOk
                /\ subOk
                /\ \A a \in Albums : o[a] = "error"
        /\ TickWith(listOk, subOk, o, TRUE)

\* A tick in which submit_pending_downloads submits or links at least one
\* row and its commit fails.
tick_commit_fails ==
    \E o \in [Albums -> SubmitOutcomes] : TickWith(TRUE, TRUE, o, FALSE)

\* resume_sync_job(job_id): _sync_service.resume_sync_job_after_downloads is
\* no method of PlaylistSyncService; the AttributeError is logged.
resume_sync_job(j) ==
    /\ j \in resumeTasks
    /\ resumeTasks' = resumeTasks \ {j}
    /\ last' = Did("resume_sync_job", j, 500)
    /\ UNCHANGED <<standalone, loop, utcAttr, now, jobs, tms, lastSynced, dls, mappings, dlOrder, yjobs,
                   foreign, run, retryTasks>>

\* lifespan, after the yield: update_task.cancel(). The CancelledError
\* reaches the loop at its sleep and the loop breaks.
shutdown ==
    /\ loop.status = "running"
    /\ loop' = [loop EXCEPT !.status = "cancelled"]
    /\ last' = Did("shutdown", 0, 0)
    /\ UNCHANGED <<standalone, utcAttr, now, jobs, tms, lastSynced, dls, mappings, dlOrder,
                   yjobs, foreign, run, retryTasks, resumeTasks>>

\* ------------------------------------------------------------ environment
Rank(s) ==
    CASE s = "pending" -> 1
      [] s = "fetching_info" -> 2
      [] s = "downloading" -> 3
      [] s = "importing" -> 4
      [] OTHER -> 5

\* The remote queue works on a job: its status moves forward.
YubalAdvance(i, s) ==
    /\ i \in RemoteIds
    /\ is_active(yjobs[i].status)
    /\ Rank(s) > Rank(yjobs[i].status)
    /\ yjobs' = [yjobs EXCEPT ![i].status = s]
    /\ last' = Quiet
    /\ UNCHANGED <<standalone, loop, utcAttr, now, jobs, tms, lastSynced, dls, mappings, dlOrder, foreign,
                   run, retryTasks, resumeTasks>>

\* A finished job is cleared from the remote list.
YubalCleanup(i) ==
    /\ i \in RemoteIds
    /\ is_finished(yjobs[i].status)
    /\ yjobs' = [yjobs EXCEPT ![i].status = "gone"]
    /\ last' = Quiet
    /\ UNCHANGED <<standalone, loop, utcAttr, now, jobs, tms, lastSynced, dls, mappings, dlOrder, foreign,
                   run, retryTasks, resumeTasks>>

\* Other clients' jobs come and go in the remote queue.
ForeignChange ==
    /\ \E f \in ForeignLevels : f # foreign /\ foreign' = f
    /\ last' = Quiet
    /\ UNCHANGED <<standalone, loop, utcAttr, now, jobs, tms, lastSynced, dls, mappings, dlOrder, yjobs,
                   run, retryTasks, resumeTasks>>

\* Time passes.
AdvanceClock ==
    /\ \E t \in ClockValues : t > now /\ now' = t
    /\ last' = Quiet
    /\ UNCHANGED <<standalone, loop, utcAttr, jobs, tms, lastSynced, dls, mappings, dlOrder, yjobs, foreign,
                   run, retryTasks, resumeTasks>>

Next ==
    \/ \E p \in Playlists : create_sync_job(p)
    \/ \E j \in JobIds : cancel_sync_job(j)
    \/ \E j \in JobIds : force_complete_sync_job(j)
    \/ \E j \in JobIds : RunStart(j)
    \/ \E j \in JobIds : RunFetch(j)
    \/ \E j \in JobIds : RunMatch(j)
    \/ \E j \in JobIds : RunMatchCommit(j)
    \/ \E j \in JobIds : RunSubmit(j)
    \/ \E j \in JobIds : RunPoll(j)
    \/ \E j \in JobIds : RunRematch(j)
    \/ \E j \in JobIds : RunCreate(j)
    \/ \E j \in JobIds : RunStamp(j)
    \/ \E j \in JobIds : run_sync_job(j)
    \/ \E a \in Albums : retry_download(a)
    \/ \E a \in Albums : start_download(a)
    \/ Tick
    \/ shutdown
    \/ \E j \in JobIds : resume_sync_job(j)
    \/ \E i \in RemoteIds, s \in JobStatus : YubalAdvance(i, s)
    \/ \E i \in RemoteIds : YubalCleanup(i)
    \/ ForeignChange
    \/ AdvanceClock
    \/ names_match
    \/ run_migrations
    \/ migration_step
    \/ get
    \/ get_attempt
    \/ tick_commit_fails
    \/ call_submit_pending_downloads
    \/ call_match_track
    \/ call_find_album_for_track
    \/ store_load
    \/ \E j \in StoreJobs : delete_sync_job(j)
    \/ \E p \in Playlists : delete_playlist(p)
    \/ delete_orphaned_downloads

Spec == Init /\ [][Next]_vars


\* ------------------------------------------------------- specifications
\* The steps of one run_sync_job execution.
RunStep(j) ==
    \/ RunStart(j)
    \/ RunFetch(j)
    \/ RunMatch(j)
    \/ RunMatchCommit(j)
    \/ RunSubmit(j)
    \/ RunPoll(j)
    \/ RunRematch(j)
    \/ RunCreate(j)
    \/ RunStamp(j)

\* Sync jobs of the one-track playlist, their runs and the requests to
\* cancel and to force-complete them, with the remote queue at work.
NextJobs ==
    \/ create_sync_job(1)
    \/ \E j \in JobIds : cancel_sync_job(j)
    \/ \E j \in JobIds : force_complete_sync_job(j)
    \/ \E j \in JobIds : RunStart(j)
    \/ \E j \in JobIds : RunFetch(j)
    \/ \E j \in JobIds : RunMatch(j)
    \/ \E j \in JobIds : RunMatchCommit(j)
    \/ \E j \in JobIds : RunSubmit(j)
    \/ \E j \in JobIds : RunPoll(j)
    \/ \E j \in JobIds : RunRematch(j)
    \/ \E j \in JobIds : RunCreate(j)
    \/ \E j \in JobIds : RunStamp(j)
    \/ \E i \in RemoteIds, s \in JobStatus : YubalAdvance(i, s)

SpecJobs == Init /\ [][NextJobs]_vars

\* One sync job of the one-track playlist, the status loop and the remote
\* queue, which also clears finished jobs. The loop body runs every 30
\* seconds, the worker thread of run_sync_job and the scheduled resume
\* tasks run when they can: these steps are weakly fair; the remote queue
\* owes nothing.
NextLive ==
    \/ jobs = <<>> /\ create_sync_job(1)
    \/ \E j \in JobIds : RunStart(j)
    \/ \E j \in JobIds : RunFetch(j)
    \/ \E j \in JobIds : RunMatch(j)
    \/ \E j \in JobIds : RunMatchCommit(j)
    \/ \E j \in JobIds : RunSubmit(j)
    \/ \E j \in JobIds : RunPoll(j)
    \/ \E j \in JobIds : RunRematch(j)
    \/ \E j \in JobIds : RunCreate(j)
    \/ \E j \in JobIds : RunStamp(j)
    \/ Tick
    \/ \E j \in JobIds : resume_sync_job(j)
    \/ \E i \in RemoteIds, s \in JobStatus : YubalAdvance(i, s)
    \/ \E i \in RemoteIds : YubalCleanup(i)

SpecLive ==
    /\ Init
    /\ [][NextLive]_vars
    /\ WF_vars(Tick)
    /\ \A j \in 1..MaxJobs : WF_vars(RunStep(j)) /\ WF_vars(resume_sync_job(j))

\* One sync job of the one-track playlist up to its wait for the download,
\* the status loop and the shutdown of the application. The loop body runs
\* every 30 seconds for as long as its task lives: the tick is weakly fair.
NextLoop ==
    \/ jobs = <<>> /\ create_sync_job(1)
    \/ \E j \in JobIds : RunStart(j)
    \/ \E j \in JobIds : RunFetch(j)
    \/ \E j \in JobIds : RunMatch(j)
    \/ \E j \in JobIds : RunMatchCommit(j)
    \/ \E j \in JobIds : RunSubmit(j)
    \/ \E j \in JobIds : RunPoll(j)
    \/ Tick
    \/ shutdown
    \/ \E i \in RemoteIds, s \in JobStatus : YubalAdvance(i, s)
    \/ \E i \in RemoteIds : YubalCleanup(i)

SpecLoop ==
    /\ Init
    /\ [][NextLoop]_vars
    /\ WF_vars(Tick)

\* One sync job of the two-track playlist up to the submission of its
\* albums, retries of its downloads and the status loop, while other
\* clients fill and empty the remote queue and no remote job advances.
NextAdmission ==
    \/ jobs = <<>> /\ create_sync_job(2)
    \/ \E j \in JobIds : RunStart(j)
    \/ \E j \in JobIds : RunFetch(j)
    \/ \E j \in JobIds : RunMatch(j)
    \/ \E j \in JobIds : RunMatchCommit(j)
    \/ \E j \in JobIds : RunSubmit(j)
    \/ \E a \in Albums : retry_download(a)
    \/ \E a \in Albums : start_download(a)
    \/ Tick
    \/ ForeignChange

SpecAdmission == Init /\ [][NextAdmission]_vars

\* One sync job of the one-track playlist up to the wait for its album,
\* retries of its download and the status loop, while time passes
\* and the remote queue downloads, completes and clears its jobs.
NextTimeout ==
    \/ jobs = <<>> /\ create_sync_job(1)
    \/ \E j \in JobIds : RunStart(j)
    \/ \E j \in JobIds : RunFetch(j)
    \/ \E j \in JobIds : RunMatch(j)
    \/ \E j \in JobIds : RunMatchCommit(j)
    \/ \E j \in JobIds : RunSubmit(j)
    \/ \E j \in JobIds : RunPoll(j)
    \/ \E a \in Albums : retry_download(a)
    \/ \E a \in Albums : start_download(a)
    \/ Tick
    \/ \E i \in RemoteIds, s \in {"downloading", "completed"} : YubalAdvance(i, s)
    \/ \E i \in RemoteIds : YubalCleanup(i)
    \/ AdvanceClock

SpecTimeout == Init /\ [][NextTimeout]_vars

\* Sync jobs of both playlists fetched and matched by two worker threads at
\* the same time.
NextMatching ==
    \/ \E p \in Playlists : create_sync_job(p)
    \/ \E j \in JobIds : RunStartOf(j, MaxJobs)
    \/ \E j \in JobIds : RunFetch(j)
    \/ \E j \in JobIds : RunMatch(j)
    \/ \E j \in JobIds : RunMatchCommit(j)

SpecMatching == Init /\ [][NextMatching]_vars

\* One sync job of the one-track playlist run to its end and run again,
\* with the remote queue completing its jobs.
NextAgain ==
    \/ jobs = <<>> /\ create_sync_job(1)
    \/ \E j \in JobIds : RunStart(j)
    \/ \E j \in JobIds : RunFetch(j)
    \/ \E j \in JobIds : RunMatch(j)
    \/ \E j \in JobIds : RunMatchCommit(j)
    \/ \E j \in JobIds : RunSubmit(j)
    \/ \E j \in JobIds : RunPoll(j)
    \/ \E j \in JobIds : RunRematch(j)
    \/ \E j \in JobIds : RunCreate(j)
    \/ \E j \in JobIds : RunStamp(j)
    \/ \E j \in JobIds : run_sync_job(j)
    \/ \E i \in RemoteIds : YubalAdvance(i, "completed")

SpecAgain == Init /\ [][NextAgain]_vars

\* One sync job of the two-track playlist from its creation to its end, with
\* the status loop and the remote queue at work.
NextEndToEnd ==
    \/ jobs = <<>> /\ create_sync_job(2)
    \/ \E j \in JobIds : RunStart(j)
    \/ \E j \in JobIds : RunFetch(j)
    \/ \E j \in JobIds : RunMatch(j)
    \/ \E j \in JobIds : RunMatchCommit(j)
    \/ \E j \in JobIds : RunSubmit(j)
    \/ \E j \in JobIds : RunPoll(j)
    \/ \E j \in JobIds : RunRematch(j)
    \/ \E j \in JobIds : RunCreate(j)
    \/ \E j \in JobIds : RunStamp(j)
    \/ Tick
    \/ \E i \in RemoteIds, s \in {"downloading", "completed", "failed"} :
          YubalAdvance(i, s)

SpecEndToEnd == Init /\ [][NextEndToEnd]_vars

\* The first call of the two name matchers, with any pair of Names.
NextNames == names = NoNames /\ names_match

SpecNames == Init /\ [][NextNames]_vars

\* Runs of run_migrations on one database, one after the other.
NextMigrations ==
    \/ run_migrations
    \/ migration_step

SpecMigrations == Init /\ [][NextMigrations]_vars

\* Calls of ListenBrainzClient._get, one after the other.
NextRequests ==
    \/ get
    \/ get_attempt

SpecRequests == Init /\ [][NextRequests]_vars

\* One sync job of the two-track playlist up to its wait for the downloads,
\* retries of its downloads and the status loop, while the remote queue
\* completes its jobs.
NextResume ==
    \/ jobs = <<>> /\ create_sync_job(2)
    \/ \E j \in JobIds : RunStart(j)
    \/ \E j \in JobIds : RunFetch(j)
    \/ \E j \in JobIds : RunMatch(j)
    \/ \E j \in JobIds : RunMatchCommit(j)
    \/ \E j \in JobIds : RunSubmit(j)
    \/ \E a \in Albums : retry_download(a)
    \/ \E a \in Albums : start_download(a)
    \/ Tick
    \/ \E j \in JobIds : resume_sync_job(j)
    \/ \E i \in RemoteIds : YubalAdvance(i, "completed")

SpecResume == Init /\ [][NextResume]_vars

\* create_job succeeds for every row.
AllAccepted == [a \in Albums |-> "ok"]

\* One sync job of the two-track playlist and the status loop, with a
\* remote queue that answers every call and accepts every job. The loop
\* body and the steps of run_sync_job are weakly fair.
NextBackfill ==
    \/ jobs = <<>> /\ create_sync_job(2)
    \/ \E j \in JobIds : RunStart(j)
    \/ \E j \in JobIds : RunFetch(j)
    \/ \E j \in JobIds : RunMatch(j)
    \/ \E j \in JobIds : RunMatchCommit(j)
    \/ \E j \in JobIds : RunSubmit(j)
    \/ \E j \in JobIds : RunPoll(j)
    \/ \E j \in JobIds : RunRematch(j)
    \/ \E j \in JobIds : RunCreate(j)
    \/ \E j \in JobIds : RunStamp(j)
    \/ TickWith(TRUE, TRUE, AllAccepted, TRUE)
    \/ \E i \in RemoteIds, s \in {"downloading", "completed", "failed"} :
          YubalAdvance(i, s)

SpecBackfill ==
    /\ Init
    /\ [][NextBackfill]_vars
    /\ WF_vars(TickWith(TRUE, TRUE, AllAccepted, TRUE))
    /\ \A j \in 1..MaxJobs : WF_vars(RunStep(j))

\* One sync job of the two-track playlist up to the submission of its
\* albums, retries of its downloads and the status loop, whose commit after
\* a submission may fail.
NextRecovery ==
    \/ jobs = <<>> /\ create_sync_job(2)
    \/ \E j \in JobIds : RunStart(j)
    \/ \E j \in JobIds : RunFetch(j)
    \/ \E j \in JobIds : RunMatch(j)
    \/ \E j \in JobIds : RunMatchCommit(j)
    \/ \E j \in JobIds : RunSubmit(j)
    \/ \E a \in Albums : retry_download(a)
    \/ Tick
    \/ tick_commit_fails

SpecRecovery == Init /\ [][NextRecovery]_vars

\* The first call of submit_pending_downloads on a table of three rows.
NextPass == pass = NoPass /\ call_submit_pending_downloads

SpecPass == Init /\ [][NextPass]_vars

\* The first call of _match_track on a track of its own.
NextMatcher == matcher = NoMatcher /\ call_match_track

SpecMatcher == Init /\ [][NextMatcher]_vars

\* The first call of find_album_for_track.
NextResolver == resolver = NoResolver /\ call_find_album_for_track

SpecResolver == Init /\ [][NextResolver]_vars

\* Delete requests in any order on any tables.
NextDelete ==
    \/ store_load
    \/ \E j \in StoreJobs : delete_sync_job(j)
    \/ \E p \in Playlists : delete_playlist(p)
    \/ delete_orphaned_downloads

SpecDelete == Init /\ [][NextDelete]_vars

\* One sync job of the one-track playlist with the cancel and the forced
\* completion requests arriving at any point of its run.
NextHandlers ==
    \/ jobs = <<>> /\ create_sync_job(1)
    \/ \E j \in JobIds : cancel_sync_job(j)
    \/ \E j \in JobIds : force_complete_sync_job(j)
    \/ \E j \in JobIds : RunStep(j)
    \/ \E i \in RemoteIds, s \in JobStatus : YubalAdvance(i, s)

SpecHandlers == Init /\ [][NextHandlers]_vars


\* -------------------------------------------------------------- properties
\* The sync jobs of playlist p that are neither COMPLETED nor FAILED.
ActiveJobs(p) ==
    {j \in JobIds : jobs[j].playlist_id = p /\ ~Terminal(jobs[j].status)}

\* C1: for every playlist, in every reachable state, at most one sync job with
\* a status other than COMPLETED or FAILED exists.
C1_OneActiveJobPerPlaylist ==
    \A p \in Playlists : Cardinality(ActiveJobs(p)) <= 1


\* C2: no step submits a new remote job while the active remote jobs are at
\* or above the ceiling of 18: whenever a step creates remote jobs, the
\* active remote jobs after it are at most 18.
C2_SubmitBelowCeiling ==
    [][Len(yjobs') > Len(yjobs) =>
          ActiveCount(yjobs', foreign') <= max_queue_size]_vars


\* The rows submit_pending_downloads selects from: PENDING without a remote
\* job id.
Unsubmitted == {a \in Albums : Exists(a) /\ dls[a].status = "pending"
                                         /\ dls[a].yubal_job_id = 0}

\* C3: one call of submit_pending_downloads, made by a tick that sees A
\* active remote jobs, moves at most max(0, 18 - A) rows out of PENDING; with
\* A >= 18 it creates no remote job and changes none of the rows it selects
\* from.
C3_AdmissionBound ==
    [][last'.op = "tick" =>
        LET A == ActiveCount(yjobs, foreign)
            moved == {a \in Unsubmitted : dls'[a].status # "pending"}
        IN /\ Cardinality(moved) <= (IF 18 - A > 0 THEN 18 - A ELSE 0)
           /\ A >= 18 => /\ yjobs' = yjobs
                         /\ \A a \in Unsubmitted : dls'[a] = dls[a]]_vars

\* A tick has called submit_pending_downloads with 18 or more active remote
\* jobs and a row is still PENDING without a remote job id.
C3_Witness ==
    /\ last.op = "tick"
    /\ last.active >= 18
    /\ Unsubmitted # {}


\* The edges C4 allows between two statuses of a sync job.
StatusEdge(s, t) ==
    \/ s = "pending" /\ t = "fetching"
    \/ s = "fetching" /\ t = "matching"
    \/ s = "matching" /\ t \in {"downloading", "creating_playlist"}
    \/ s = "downloading" /\ t = "creating_playlist"
    \/ s = "creating_playlist" /\ t = "completed"
    \/ ~Terminal(s) /\ t = "failed"

\* C4: a sync job's status changes only along PENDING -> FETCHING -> MATCHING
\* -> DOWNLOADING -> CREATING_PLAYLIST -> COMPLETED, MATCHING ->
\* CREATING_PLAYLIST, or from a non-terminal status to FAILED.
C4_StatusEdges ==
    [][\A j \in JobIds :
          jobs'[j].status # jobs[j].status =>
              StatusEdge(jobs[j].status, jobs'[j].status)]_vars

\* C5: once a sync job's status is FAILED or COMPLETED it never changes
\* again, whatever the run_sync_job execution in flight does.
C5_TerminalIsFinal ==
    [][\A j \in JobIds :
          Terminal(jobs[j].status) => jobs'[j].status = jobs[j].status]_vars


\* Sync job j is in DOWNLOADING and every AlbumDownload its TrackMatch rows
\* reference is COMPLETED or FAILED.
DownloadsSettled(j) ==
    /\ j \in JobIds
    /\ jobs[j].status = "downloading"
    /\ \A i \in 1..Len(tms[j]) :
          tms[j][i].album_download_id # 0 =>
              Terminal(dls[tms[j][i].album_download_id].status)

\* C6: under fair ticks, a sync job in DOWNLOADING whose referenced downloads
\* are all COMPLETED or FAILED eventually leaves DOWNLOADING: it does not stay
\* in DOWNLOADING for ever with all its downloads settled.
C6_SettledJobResumes ==
    \A j \in 1..MaxJobs : DownloadsSettled(j) ~> ~DownloadsSettled(j)


\* What C7 asks of a step for the rows in DOWNLOADING: a row queued more than
\* 7200 seconds ago is FAILED with the timeout message after it, any other
\* row is not failed with the timeout message.
TimeoutApplied ==
    \A a \in Albums :
        Exists(a) /\ dls[a].status = "downloading" =>
            IF dls[a].queued_at # -1 /\ now - dls[a].queued_at > 7200
            THEN /\ dls'[a].status = "failed"
                 /\ dls'[a].error_message = MsgTimeout
            ELSE ~(dls'[a].status = "failed" /\ dls'[a].error_message = MsgTimeout)

\* C7 as stated: on every reconciliation tick, each DOWNLOADING download
\* queued more than 7200 seconds ago is marked FAILED with the timeout
\* message, and one queued at most 7200 seconds ago is not.
C7_TimeoutEveryTick ==
    [][last'.op = "tick" => TimeoutApplied]_vars

\* C7: on every reconciliation tick that obtains the remote job list, each
\* DOWNLOADING download queued more than 7200 seconds ago is marked FAILED
\* with the timeout message, whatever its remote job reports, and one queued
\* at most 7200 seconds ago is not failed for timeout.
C7_TimeoutOnTick ==
    [][last'.op = "tick" /\ last'.code = 0 => TimeoutApplied]_vars

\* A tick has just failed a download for timeout.
C7_Witness ==
    /\ last.op = "tick"
    /\ \E a \in Albums : /\ Exists(a)
                         /\ dls[a].status = "failed"
                         /\ dls[a].error_message = MsgTimeout
                         /\ now - dls[a].queued_at > 7200


\* C8: on a reconciliation tick that has fetched the remote job list, every
\* active download (PENDING, QUEUED or DOWNLOADING with a remote job id)
\* whose remote job is absent from the list is marked FAILED, with the
\* 'job not found' message unless it is failed for timeout.
C8_MissingRemoteJobFails ==
    [][last'.op = "tick" /\ last'.code = 0 =>
        \A a \in active_downloads :
            remote_status(dls[a]) = "gone" =>
                /\ dls'[a].status = "failed"
                /\ ~timed_out(dls[a]) => dls'[a].error_message = MsgNotFound]_vars


\* C9: when create_job is refused with 409 for a PENDING download, in
\* submit_pending_downloads, in the retry's start_download or in the sync
\* job's own submission, the row is left as it was: PENDING, with no new
\* remote job id, not FAILED.
C9_ConflictLeavesPending ==
    [][\A a \in Albums :
          last'.out[a] = "conflict" /\ dls[a].status = "pending" =>
              dls'[a] = dls[a]]_vars


\* C10: in submit_pending_downloads a submission failure other than 409
\* marks that download FAILED with the error message, and the mark is in the
\* database when the call has returned.
C10_SubmitErrorPersisted ==
    [][last'.op = "tick" =>
        \A a \in Albums :
            last'.out[a] = "error" =>
                /\ dls'[a].status = "failed"
                /\ dls'[a].error_message = MsgError]_vars


\* The album_downloads rows linked from the track_matches rows of job j.
LinkedAlbums(j) ==
    {tms[j][i].album_download_id : i \in 1..Len(tms[j])} \ {0}

\* C11: after any sequence of matching operations, two sync jobs of different
\* playlists matching at the same time included, there is at most one
\* album_downloads row per external album identifier, every track_matches row
\* that resolved to an album links to that one row, and no run has ended in
\* the unique index of album_downloads because the album had a row already.
C11_OneRowPerAlbum ==
    /\ \A i, k \in 1..Len(dlOrder) : dlOrder[i] = dlOrder[k] => i = k
    /\ \A j \in JobIds : \A a \in LinkedAlbums(j) : Exists(a)
    /\ \A j \in JobIds : run[j].error # MsgIntegrity


\* The track_matches row the matching loop of job j has just stored for
\* position i.
StoredRow(j, i) == tms'[j][Len(tms[j]) + i]

\* C12: for every track matched during MATCHING, if the match cache holds an
\* entry for the track's recording id and the cached rating key is still in
\* the library, the track is stored as matched with the cached rating key and
\* neither the library search nor the album resolution runs for it.
C12_CacheShortCircuits ==
    [][last'.op = "match_tracks" /\ Len(tms'[last'.arg]) > Len(tms[last'.arg]) =>
         \A i \in AllPositions :
            last'.hit[i] # 0 =>
                /\ StoredRow(last'.arg, i).position = i
                /\ StoredRow(last'.arg, i).matched_in_plex
                /\ StoredRow(last'.arg, i).plex_rating_key = last'.hit[i]
                /\ StoredRow(last'.arg, i).album_download_id = 0
                /\ i \notin last'.searched
                /\ i \notin last'.resolved]_vars

\* The matching loop has stored a track on a valid cache entry.
C12_Witness ==
    /\ last.op = "match_tracks"
    /\ \E i \in AllPositions : last.hit[i] # 0


\* C13: running the matching phase again for a sync job whose track_matches
\* rows exist stores no second row for any position: for every job and
\* position there is at most one track_matches row.
C13_OneRowPerPosition ==
    \A j \in JobIds : \A i, k \in 1..Len(tms[j]) :
        tms[j][i].position = tms[j][k].position => i = k


\* The rows of job j found directly in the library and those matched after
\* the download of their album.
FoundDirectly(j) ==
    {i \in 1..Len(tms[j]) :
        tms[j][i].matched_in_plex /\ tms[j][i].album_download_id = 0}

Rematched(j) ==
    {i \in 1..Len(tms[j]) :
        tms[j][i].matched_in_plex /\ tms[j][i].album_download_id # 0}

\* The playlist phase of job j has just ended without an exception.
PlaylistPhaseDone(j) ==
    /\ j \in JobIds
    /\ last.op = "create_playlist"
    /\ last.arg = j
    /\ last.code = 0

\* C14: for a playlist in which some tracks are found directly in the library
\* and every other track resolves to an album whose download completes and
\* whose re-match succeeds, with those tracks in the library when the playlist
\* is built, the job ends COMPLETED with tracks_matched equal to tracks_total,
\* tracks_missing 0 and a playlist key.
C14_EndToEnd ==
    \A j \in 1..MaxJobs :
        /\ PlaylistPhaseDone(j)
        /\ FoundDirectly(j) # {}
        /\ FoundDirectly(j) \cup Rematched(j) = 1..Len(tms[j])
        /\ last.tracks = Len(tms[j])
        => /\ jobs[j].status = "completed"
           /\ jobs[j].tracks_matched = jobs[j].tracks_total
           /\ jobs[j].tracks_missing = 0
           /\ jobs[j].plex_playlist_key

\* A job has ended with one track found directly and one matched after the
\* download of its album, which the remote queue completed.
C14_Witness ==
    \E j \in JobIds :
        /\ PlaylistPhaseDone(j)
        /\ FoundDirectly(j) # {}
        /\ Rematched(j) # {}
        /\ FoundDirectly(j) \cup Rematched(j) = 1..Len(tms[j])
        /\ last.tracks = Len(tms[j])
        /\ \A i \in Rematched(j) :
              dls[tms[j][i].album_download_id].status = "completed"


\* The rows of job j that are not matched in the library.
Unmatched(j) == {i \in 1..Len(tms[j]) : ~tms[j][i].matched_in_plex}

\* Job j is in DOWNLOADING and none of its missing tracks resolved to an
\* album: no row links to a download.
Unresolved(j) ==
    /\ j \in JobIds
    /\ jobs[j].status = "downloading"
    /\ Unmatched(j) # {}
    /\ LinkedAlbums(j) = {}

\* Job j is COMPLETED with its unmatched tracks counted in tracks_missing, or
\* an exception has ended its run.
CompletedOrRaised(j) ==
    /\ j \in JobIds
    /\ \/ /\ jobs[j].status = "completed"
          /\ jobs[j].tracks_missing = Cardinality(Unmatched(j))
       \/ run[j].error # MsgNone

\* A playlist phase that ends with no track matched leaves the job COMPLETED
\* without a playlist key.
NothingMatchedNoPlaylist ==
    \A j \in JobIds :
        PlaylistPhaseDone(j) /\ Unmatched(j) = 1..Len(tms[j]) =>
            /\ jobs[j].status = "completed"
            /\ ~jobs[j].plex_playlist_key

\* C15: a sync job whose missing tracks resolve to no album (no download link
\* is created) still reaches COMPLETED, unless a phase raises, with those
\* tracks counted in tracks_missing; and when no track at all is matched the
\* playlist phase creates no playlist, leaves the playlist key null and ends
\* COMPLETED.
C15_UnresolvedJobCompletes ==
    /\ \A j \in 1..MaxJobs : Unresolved(j) ~> CompletedOrRaised(j)
    /\ []NothingMatchedNoPlaylist

\* A job has ended COMPLETED with no track matched, none linked to a download
\* and no playlist key.
C15_Witness ==
    \E j \in JobIds :
        /\ run[j].pc = "done"
        /\ jobs[j].status = "completed"
        /\ Len(tms[j]) > 0
        /\ Unmatched(j) = 1..Len(tms[j])
        /\ LinkedAlbums(j) = {}
        /\ jobs[j].tracks_missing = Len(tms[j])
        /\ ~jobs[j].plex_playlist_key


\* The run of job j has ended with an exception.
RunRaised(j) == run[j].pc = "done" /\ run[j].error # MsgNone

\* C16: when a phase of a sync job run raises an exception, the job is stored
\* FAILED with the message of the exception as error_message and with
\* completed_at set: no job whose run has ended with an error is left in a
\* status other than FAILED.
C16_RaisedRunIsFailed ==
    \A j \in JobIds :
        RunRaised(j) =>
            /\ jobs[j].status = "failed"
            /\ jobs[j].error_message = run[j].error
            /\ jobs[j].completed_at


\* _match_track has raised for a track of the loop job j is about to commit.
TrackRaised(j) ==
    /\ run[j].pc = "commit"
    /\ \E i \in DOMAIN run[j].session.out : run[j].session.out[i] = -2

\* C17: a failure while matching or resolving one track does not abort the
\* matching loop: when the loop of a job ends, every track of the playlist has
\* its track_matches row and the job has not become FAILED.
C17_TrackFailureKeepsLoop ==
    [][\A j \in JobIds :
          TrackRaised(j) /\ run'[j].pc # "commit" =>
              /\ Len(tms'[j]) =
                     Len(tms[j]) + Cardinality(TrackPositions(jobs[j].playlist_id))
              /\ jobs'[j].status # "failed"]_vars


\* Job j is in DOWNLOADING and a download linked to it has ended FAILED: the
\* row is FAILED and no remote job is at work on it.
DownloadFailed(j) ==
    /\ j \in JobIds
    /\ jobs[j].status = "downloading"
    /\ \E a \in LinkedAlbums(j) :
          /\ dls[a].status = "failed"
          /\ ~is_active(remote_status(dls[a]))

\* No job is FAILED unless an exception has ended its run.
FailedOnlyByException ==
    \A j \in JobIds : jobs[j].status = "failed" => RunRaised(j)

\* C18: an AlbumDownload that ends FAILED never makes the owning sync job
\* FAILED: the job goes on to COMPLETED, unless a phase raises, and the tracks
\* that stay unmatched are counted as missing.
C18_FailedDownloadJobCompletes ==
    /\ \A j \in 1..MaxJobs : DownloadFailed(j) ~> CompletedOrRaised(j)
    /\ []FailedOnlyByException


\* The iteration of the status loop with beat b has ended in its exception
\* handler.
FailedTick(b) ==
    /\ last.op = "tick"
    /\ last.code = 500
    /\ loop.beat = b

\* C19: an exception raised inside a tick of the status loop never ends the
\* loop: after a failing tick a further tick is started unless the loop has
\* been cancelled at shutdown, and the loop is never ended by anything else.
C19_LoopSurvivesFailedTick ==
    /\ \A b \in {0, 1} :
          FailedTick(b) ~> (loop.beat # b \/ loop.status = "cancelled")
    /\ [](loop.status \in {"running", "cancelled"})

\* A tick has ended in its exception handler and the loop is still running.
C19_Witness ==
    /\ last.op = "tick"
    /\ last.code = 500
    /\ loop.status = "running"


\* The step answers POST /api/downloads/{a}/retry.
RetryAnswered(a) == last'.op = "retry_download" /\ last'.arg = a

\* C20: retry_download changes a download only if its status is FAILED: for
\* any other status the request is rejected and no row changes; a FAILED row
\* is reset to PENDING, progress 0, no error_message and no completed_at, and
\* it becomes QUEUED only in a later step, by the background task the reset
\* has scheduled.
C20_RetryOnlyFailed ==
    [][\A a \in Albums :
          /\ RetryAnswered(a) /\ dls[a].status # "failed" =>
                /\ last'.code = 400
                /\ dls' = dls
                /\ retryTasks' = retryTasks
          /\ RetryAnswered(a) /\ dls[a].status = "failed" =>
                /\ last'.code = 200
                /\ dls'[a].status = "pending"
                /\ dls'[a].progress = 0
                /\ dls'[a].error_message = MsgNone
                /\ ~dls'[a].completed_at
                /\ \A b \in Albums \ {a} : dls'[b] = dls[b]
          /\ last'.op = "start_download" /\ last'.arg = a
                /\ dls'[a].status = "queued" => a \in retryTasks]_vars

\* A retry has reset a FAILED download that had a remote job.
C20_Witness ==
    /\ last.op = "retry_download"
    /\ last.code = 200
    /\ dls[last.arg].status = "pending"
    /\ dls[last.arg].yubal_job_id # 0
    /\ dls[last.arg].progress = 0



\* The step answers POST /api/sync-jobs/{j}/cancel or .../complete.
CancelAnswered(j) == last'.op = "cancel_sync_job" /\ last'.arg = j

ForceAnswered(j) == last'.op = "force_complete_sync_job" /\ last'.arg = j

\* C21: cancel_sync_job and force_complete_sync_job on a job that is
\* COMPLETED or FAILED are rejected and leave its status, error_message and
\* completed_at as they were; cancel_sync_job on any other job makes it
\* FAILED with the cancellation message and completed_at set.
C21_TerminalJobRejects ==
    [][\A j \in JobIds :
          /\ (CancelAnswered(j) \/ ForceAnswered(j))
                /\ jobs[j].status \in {"completed", "failed"} =>
                   /\ last'.code = 400
                   /\ jobs'[j].status = jobs[j].status
                   /\ jobs'[j].error_message = jobs[j].error_message
                   /\ jobs'[j].completed_at = jobs[j].completed_at
          /\ CancelAnswered(j)
                /\ jobs[j].status \notin {"completed", "failed"} =>
                   /\ last'.code = 200
                   /\ jobs'[j].status = "failed"
                   /\ jobs'[j].error_message = MsgUserCancel
                   /\ jobs'[j].completed_at]_vars

\* A forced completion of a COMPLETED job has been rejected.
C21_Witness ==
    /\ last.op = "force_complete_sync_job"
    /\ last.code = 400
    /\ last.arg \in JobIds
    /\ jobs[last.arg].status = "completed"
    /\ jobs[last.arg].error_message = MsgNone



\* The two names of the last call are a and b, in this order.
Called(a, b) == names.name1 = a /\ names.name2 = b

\* C22: both name matchers judge two names equivalent exactly when neither
\* is empty and their normalised forms are equal or one contains the other:
\* "The Beatles" matches "beatles", "Test Song" matches "test song", "Song
\* A" does not match "Song B"; the answer is the same with the arguments
\* swapped and is false when either name is empty.
C22_NamesMatch ==
    /\ names.plex <=>
          /\ names.name1 # <<>> /\ names.name2 # <<>>
          /\ equal_or_contained(plex_normalize_name(names.name1),
                                plex_normalize_name(names.name2))
    /\ names.ytmusic <=>
          /\ names.name1 # <<>> /\ names.name2 # <<>>
          /\ equal_or_contained(ytmusic_normalize_name(names.name1),
                                ytmusic_normalize_name(names.name2))
    /\ Called(TheBeatles, beatles) \/ Called(TestSong, test_song) =>
          names.plex /\ names.ytmusic
    /\ Called(SongA, SongB) => ~names.plex /\ ~names.ytmusic
    /\ names.plex = plex_names_match(names.name2, names.name1)
    /\ names.ytmusic = ytmusic_names_match(names.name2, names.name1)
    /\ names.name1 = <<>> \/ names.name2 = <<>> =>
          ~names.plex /\ ~names.ytmusic

\* "Test Song" and "test song" have been compared and judged equivalent.
C22_Witness == Called(TestSong, test_song) /\ names.plex /\ names.ytmusic



\* C23: over any number of runs run_migrations applies every version at most
\* once, and a run applies what is pending in the order of its list: a run
\* whose versions were all recorded before applies nothing; when an up
\* function fails, its version is not recorded, nothing later in the list is
\* applied and the run ends with the exception.
C23_MigrationsOnceInOrder ==
    /\ \A v \in Versions :
          /\ migrate.ups[v] <= 1
          /\ migrate.ups[v] = 1 <=> v \in migrate.schema_migrations
    /\ migrate.order =
          Pending(SubSeq(migrate.list, 1, migrate.pos), migrate.before)
    /\ migrate.status = "done" =>
          /\ migrate.pos = Len(migrate.list)
          /\ SeqRange(migrate.list) \subseteq migrate.before =>
                migrate.order = <<>>
    /\ migrate.status = "raised" =>
          /\ migrate.pos < Len(migrate.list)
          /\ migrate.list[migrate.pos + 1] \notin migrate.schema_migrations
          /\ migrate.schema_migrations =
                migrate.before \cup SeqRange(migrate.order)

\* The second run on a database, of the list 1, 2, 3 when only version 1
\* was recorded, has applied 2 and then 3.
C23_Witness ==
    /\ migrate.runs = 2
    /\ migrate.status = "done"
    /\ migrate.list = <<1, 2, 3>>
    /\ migrate.before = {1}
    /\ migrate.order = <<2, 3>>



\* The attempts of the last _get call before its latest one.
EarlierCalls == SubSeq(request.calls, 1, Len(request.calls) - 1)

\* C24: a _get call makes at most max_retries attempts; an attempt follows
\* only a connection error or a timeout and a sleep, so that there are at
\* most max_retries - 1 sleeps; the first successful attempt ends the call
\* with its result, an HTTP status error ends it at once with that error,
\* and max_retries failed attempts end it with a connection error that
\* names max_retries.
C24_BoundedRetries ==
    /\ Len(request.calls) <= request.max_retries
    /\ request.max_retries > 0 => Len(request.sleeps) <= request.max_retries - 1
    /\ \A k \in 1..Len(request.sleeps) : request.sleeps[k] = 2 ^ (k - 1)
    /\ SeqRange(EarlierCalls) \subseteq {"ConnectError", "TimeoutException"}
    /\ request.status = "attempting" =>
          /\ SeqRange(request.calls) \subseteq {"ConnectError", "TimeoutException"}
          /\ Len(request.sleeps) = Len(request.calls)
    /\ request.status \in {"returned", "raised"} /\ request.calls # <<>> =>
          Len(request.sleeps) = Len(request.calls) - 1
    /\ request.status = "returned" <=>
          request.calls # <<>> /\ request.calls[Len(request.calls)] = "ok"
    /\ request.calls # <<>>
          /\ request.calls[Len(request.calls)] = "HTTPStatusError" =>
          request.status = "raised" /\ request.raised = "HTTPStatusError"
    /\ Len(request.calls) = request.max_retries
          /\ request.status # "idle"
          /\ SeqRange(request.calls) \subseteq {"ConnectError", "TimeoutException"} =>
          /\ request.status = "raised"
          /\ request.raised = "ConnectError"
          /\ request.attempts_named = request.max_retries

\* Two connection errors and then a successful third attempt, as in the
\* repository's test: three calls, two sleeps.
C24_Witness ==
    /\ request.max_retries = 3
    /\ request.calls = <<"ConnectError", "ConnectError", "ok">>
    /\ request.sleeps = <<1, 2>>
    /\ request.status = "returned"



\* The step schedules resume_sync_job_async for sync job j.
ResumeScheduled(j) == j \in resumeTasks' /\ j \notin resumeTasks

\* C25: the status loop schedules the resume of a sync job only for a job in
\* DOWNLOADING and only in a tick after which every AlbumDownload that the
\* job's TrackMatch rows reference is COMPLETED or FAILED, never while one
\* of them is PENDING, QUEUED or DOWNLOADING.
C25_ResumeOnlyWhenSettled ==
    [][\A j \in JobIds :
          ResumeScheduled(j) =>
              /\ last'.op = "tick"
              /\ jobs[j].status = "downloading"
              /\ \A i \in 1..Len(tms[j]) :
                    tms[j][i].album_download_id # 0 =>
                        dls'[tms[j][i].album_download_id].status
                            \in {"completed", "failed"}]_vars


\* AlbumDownload a is PENDING and has no remote job id.
NeedsSubmission(a) ==
    /\ Exists(a)
    /\ dls[a].status = "pending"
    /\ dls[a].yubal_job_id = 0

\* The remote queue holds fewer active jobs than the ceiling.
FreeCapacity == ActiveCount(yjobs, foreign) < max_queue_size

\* C26: every tick of the status loop runs submit_pending_downloads, also
\* when no local download holds a remote job id, so that with fair ticks
\* a PENDING download without a remote job id is in the end submitted or
\* linked when the remote queue has free capacity.
C26_PendingIsBackfilled ==
    \A a \in Albums :
        (NeedsSubmission(a) /\ FreeCapacity) ~> ~NeedsSubmission(a)


\* The first job of the remote list with the source URL of download a has
\* id e, as the list is when the step starts.
ListedJob(a, e) ==
    /\ e \in RemoteIds
    /\ yjobs[e].url = a /\ yjobs[e].status # "gone"
    /\ \A k \in 1..(e - 1) : yjobs[k].url # a \/ yjobs[k].status = "gone"

\* The step is a pass of submit_pending_downloads that takes up download a.
PassTakes(a) == last'.op = "tick" /\ last'.out[a] # "none"

\* The step adds a job with the source URL of download a to the remote
\* queue.
JobCreated(a) ==
    \E i \in (1..Len(yjobs')) \ (1..Len(yjobs)) : yjobs'[i].url = a

\* C27: when the remote job list fetched by submit_pending_downloads holds
\* a job with the source URL of a pending download, the pass links the
\* download to that job's id, marks it QUEUED and creates no remote job for
\* that URL, so that a pass repeated after a submission that was not
\* recorded creates no second remote job for the URL.
C27_ExistingJobIsLinked ==
    [][\A a \in Albums : \A e \in RemoteIds :
          PassTakes(a) /\ ListedJob(a, e) =>
              /\ last'.out[a] = "linked"
              /\ ~JobCreated(a)
              /\ dls'[a] # dls[a] =>
                    /\ dls'[a].status = "queued"
                    /\ dls'[a].yubal_job_id = e]_vars

\* A pass has linked a pending download to the remote job that an earlier
\* pass had created for it without recording it.
C27_Witness ==
    /\ last.op = "tick"
    /\ \E a \in Albums :
          /\ last.out[a] = "linked"
          /\ dls[a].status = "queued"
          /\ dls[a].yubal_job_id \in RemoteIds
          /\ yjobs[dls[a].yubal_job_id].url = a
          /\ Cardinality({i \in RemoteIds : yjobs[i].url = a}) = 1


\* The place of row a in the order by created_at of the call.
CreatedAt(a) == CHOOSE i \in 1..Len(pass.order) : pass.order[i] = a

\* Row a was PENDING without a remote job id when the call began.
WasPending(a) ==
    pass.ds[a].status = "pending" /\ pass.ds[a].yubal_job_id = 0

\* C28: a call of submit_pending_downloads takes the pending downloads
\* oldest first: when it submits or links a download, every download
\* created earlier that was PENDING without a remote job id has been taken
\* up earlier in the same call.
C28_OldestFirst ==
    \A k \in 1..Len(pass.r.seq) :
        pass.r.out[pass.r.seq[k]] \in {"ok", "linked"} =>
            \A c \in DOMAIN pass.ds :
                WasPending(c) /\ CreatedAt(c) < CreatedAt(pass.r.seq[k]) =>
                    \E m \in 1..(k - 1) : pass.r.seq[m] = c

\* A call has submitted row 3 and then row 1, row 3 being the older one.
C28_Witness ==
    /\ pass.order = <<3, 2, 1>>
    /\ pass.r.seq = <<3, 1>>
    /\ pass.r.out[3] = "ok"
    /\ pass.r.out[1] = "ok"


\* The step is a tick that has fetched the remote list and brought the
\* active rows up to date.
TickUpdates == last'.op = "tick" /\ last'.code = 0 /\ active_downloads # {}

\* The local status that C29 gives for the status st of the remote job.
LocalStatus(st) ==
    CASE st = "completed" -> "completed"
      [] st \in {"failed", "cancelled"} -> "failed"
      [] st \in {"pending", "fetching_info", "downloading", "importing"} ->
            "downloading"

\* C29: a tick that processes an active download whose remote job is in
\* the list and which has not timed out copies the remote progress and
\* sets the status by the remote status alone: COMPLETED with completed_at
\* for completed, FAILED with an error message for failed and cancelled,
\* DOWNLOADING for pending, fetching_info, downloading and importing.
C29_StatusFollowsRemote ==
    [][TickUpdates =>
          \A a \in active_downloads :
              LET st == remote_status(dls[a])
              IN st # "gone" /\ ~timed_out(dls[a]) =>
                    /\ dls'[a].progress = job_progress(st)
                    /\ dls'[a].status = LocalStatus(st)
                    /\ st = "completed" => dls'[a].completed_at
                    /\ st \in {"failed", "cancelled"} =>
                          dls'[a].error_message # MsgNone]_vars

\* A tick has found the remote job of a DOWNLOADING row cancelled and has
\* marked the row FAILED.
C29_Witness ==
    /\ last.op = "tick"
    /\ \E a \in Albums :
          /\ dls[a].yubal_job_id \in RemoteIds
          /\ yjobs[dls[a].yubal_job_id].status = "cancelled"
          /\ dls[a].status = "failed"
          /\ dls[a].error_message = MsgCancelled

\* The cache row of the call holds a key the library no longer has, and the
\* lookup of the key has returned.
StaleEntry ==
    /\ matcher.calls = 1
    /\ matcher.cached # 0
    /\ matcher.cached \notin matcher.library
    /\ matcher.reach # "fetch_raises"

\* C30: a cache entry whose rating key is no longer in the library never
\* marks a track as matched: _match_track goes on to search_track, and a
\* TrackMatch that is matched carries a rating key the library returned in
\* this call, from the lookup of the cached key or from the search.
C30_StaleCacheNotUsed ==
    /\ StaleEntry =>
          /\ matcher.r.searched
          /\ matcher.r.out # -3
          /\ matcher.r.key # 0 =>
                matcher.reach = "ok" /\ matcher.r.key = matcher.found
    /\ matcher.calls = 1 /\ matcher.r.key # 0 =>
          \/ matcher.r.key \in matcher.library /\ matcher.r.key = matcher.cached
          \/ matcher.r.searched /\ matcher.r.key = matcher.found

\* The cached key 1 is gone from the library, the search has found the
\* track under key 2 and the track is matched with key 2.
C30_Witness ==
    /\ StaleEntry
    /\ matcher.cached = 1
    /\ matcher.found = 2
    /\ matcher.r = [out |-> -1, key |-> 2, searched |-> TRUE]


\* The matching loop of job j ends in this step: its rows and cache entries
\* are committed or its run ends in an error.
MatchingEnds(j) == run[j].pc = "commit" /\ run'[j].pc # "commit"

\* C31: after every successful library search of the matching loop the
\* match cache maps the recording id of the track to the rating key the
\* search has found, whatever it held before. Runs that end in the unique
\* index of album_downloads (C11) are left aside. (mbid_plex_mappings holds
\* one row per recording id by its unique index; mappings is a function of
\* the recording id.)
C31_CacheFollowsMatch ==
    [][\A j \in JobIds :
          MatchingEnds(j) /\ run'[j].error # MsgIntegrity =>
              LET p == jobs[j].playlist_id
                  s == run[j].session
              IN \A i \in Processed(TrackPositions(p), s.out) :
                    s.out[i] = -1 =>
                        mappings'[recording_mbid(p, i)] = s.key[i]]_vars


\* The step is the playlist phase of job j collecting its tracks without an
\* error of the library.
PlaylistCollected(j) ==
    last'.op = "create_playlist" /\ last'.arg = j /\ last'.code = 0

\* The track_matches rows of job j that are matched and whose rating key is
\* among keys.
MatchedAlive(j, keys) ==
    {i \in 1..Len(tms[j]) :
        tms[j][i].matched_in_plex /\ tms[j][i].plex_rating_key \in keys}

\* C32: the tracks handed to plex.create_playlist in CREATING_PLAYLIST are
\* exactly the tracks of the job that are marked matched and whose rating
\* key the library still holds, in increasing playlist position; no
\* unmatched track and no track whose rating key is gone is among them.
C32_PlaylistHoldsLiveMatches ==
    [][\A j \in JobIds :
          PlaylistCollected(j) =>
              LET items == last'.items
              IN /\ \A k \in 1..(Len(items) - 1) : items[k] < items[k + 1]
                 /\ {items[k] : k \in 1..Len(items)} =
                        {tms[j][i].position :
                            i \in MatchedAlive(j, last'.library)}]_vars

\* A playlist has been built from the second track alone, the rating key of
\* the first, matched as well, being gone from the library.
C32_Witness ==
    /\ last.op = "create_playlist"
    /\ last.code = 0
    /\ last.arg \in JobIds
    /\ last.items = <<2>>
    /\ Len(tms[last.arg]) = 2
    /\ \A i \in 1..2 : tms[last.arg][i].matched_in_plex
    /\ jobs[last.arg].plex_playlist_key


\* C33: in every state a sync job that is COMPLETED has completed_at set and
\* the last_synced_at of its playlist set.
C33_CompletedIsStamped ==
    \A j \in JobIds :
        jobs[j].status = "completed" =>
            jobs[j].completed_at /\ lastSynced[jobs[j].playlist_id]


\* Strategy k is tried in the call: the album strategies only when the
\* track names an album.
Tried(k) == k = 2 \/ resolver.album_name

\* C34: find_album_for_track returns an album only when the detail of the
\* album was fetched: a result whose get_album call fails is given up and
\* the next strategy is tried, and when no strategy that is tried comes to
\* an album with its detail the call returns None.
C34_OnlyDetailedAlbums ==
    resolver.calls = 1 =>
        /\ resolver.r.found => resolver.r.detailed
        /\ resolver.r.found =>
              /\ Tried(resolver.r.by)
              /\ resolver.hits[resolver.r.by] = "detailed"
              /\ \A k \in 1..3 :
                    k < resolver.r.by /\ Tried(k) => resolver.hits[k] # "detailed"
        /\ ~resolver.r.found =>
              \A k \in 1..3 : Tried(k) => resolver.hits[k] # "detailed"


\* The track_matches rows of the tables st that belong to a job of js.
RowsOf(st, js) == {t \in StoreMatches : st.tms[t].job \in js}

\* The jobs the step deletes: the job of a session.delete(job), the jobs of
\* the playlist of an accepted DELETE /api/playlists/{playlist_id}.
DeletedJobs ==
    IF store'.op = "delete_sync_job" THEN {store'.arg}
    ELSE IF store'.op = "delete_playlist" /\ store'.code = 200
    THEN {j \in StoreJobs : store.jobs[j] = store'.arg}
    ELSE {}

\* The album_downloads rows some track_matches row of st links to.
Referenced(st) == {st.tms[t].album : t \in StoreMatches} \ {0}

\* C35: deleting a sync job or its playlist deletes the track_matches rows
\* of the job, leaves those of the other jobs and deletes no
\* album_downloads row; delete_orphaned_downloads deletes exactly the
\* album_downloads rows no track_matches row links to and no other row.
C35_DeleteFrame ==
    [][/\ store'.op \in {"delete_sync_job", "delete_playlist"} =>
            /\ store'.downloads = store.downloads
            /\ \A j \in DeletedJobs : store'.jobs[j] = 0
            /\ RowsOf(store', DeletedJobs) = {}
            /\ \A t \in StoreMatches \ RowsOf(store, DeletedJobs) :
                  store'.tms[t] = store.tms[t]
       /\ store'.op \in {"delete_sync_job", "delete_playlist"} =>
            store'.rows = Cardinality(RowsOf(store, DeletedJobs))
       /\ store'.op = "delete_orphaned_downloads" =>
            /\ store'.downloads = store.downloads \cap Referenced(store)
            /\ store'.tms = store.tms
            /\ store'.jobs = store.jobs]_vars

\* A playlist has been deleted with its job and two track_matches rows of
\* the job; both downloads are still there, one linked to by no row any
\* more and the other by the row of a job of the other playlist.
C35_Witness ==
    /\ store.op = "delete_playlist"
    /\ store.code = 200
    /\ store.rows = 2
    /\ store.playlists # {}
    /\ store.downloads = Albums
    /\ Cardinality(Referenced(store)) = 1


\* The matching loop of job j has run through every track of the playlist
\* and its run is past the loop.
MatchingEnded(j) ==
    /\ run[j].pc \notin {"queued", "fetching", "matching", "commit"}
    /\ Len(tms[j]) = Cardinality(TrackPositions(jobs[j].playlist_id))

\* The track_matches rows of job j flagged matched in the tables t.
Flagged(t, j) == {i \in 1..Len(t[j]) : t[j][i].matched_in_plex}

\* From the end of the matching loop on the counters of every job add up
\* and tracks_matched counts the rows flagged matched.
CountersAgree ==
    \A j \in JobIds :
        MatchingEnded(j) =>
            /\ jobs[j].tracks_matched >= 0
            /\ jobs[j].tracks_missing >= 0
            /\ jobs[j].tracks_matched + jobs[j].tracks_missing =
                   jobs[j].tracks_total
            /\ jobs[j].tracks_matched = Cardinality(Flagged(tms, j))

\* A step flags a stored row matched only when the download the row links
\* to is COMPLETED, and the counters move by one per row so promoted.
PromotionCounts ==
    \A j \in JobIds :
        MatchingEnded(j) =>
            LET promoted == Flagged(tms', j) \ Flagged(tms, j)
            IN /\ \A i \in promoted :
                     /\ tms[j][i].album_download_id # 0
                     /\ dls[tms[j][i].album_download_id].status = "completed"
               /\ jobs'[j].tracks_matched =
                      jobs[j].tracks_matched + Cardinality(promoted)
               /\ jobs'[j].tracks_missing =
                      jobs[j].tracks_missing - Cardinality(promoted)

\* C36: from the end of the matching loop on, tracks_matched + tracks_missing
\* = tracks_total with both counters non-negative and tracks_matched is the
\* number of track_matches rows of the job flagged matched; the re-match
\* promotes only tracks whose linked download is COMPLETED and moves the
\* counters by +1 and -1 per promoted track.
C36_CountersFollowRows == []CountersAgree /\ [][PromotionCounts]_vars

\* The re-match of a two-track job has promoted the track of a completed
\* download and left the other track missing: the counters are 1 and 1.
C36_Witness ==
    \E j \in JobIds :
        /\ run[j].pc = "creating"
        /\ jobs[j].status = "creating_playlist"
        /\ Rematched(j) # {}
        /\ Unmatched(j) # {}
        /\ jobs[j].tracks_matched = 1
        /\ jobs[j].tracks_missing = 1


\* pending -> queued -> downloading -> completed | failed, as ranks.
Stage(s) ==
    CASE s = "pending" -> 0
      [] s = "queued" -> 1
      [] s = "downloading" -> 2
      [] s \in {"completed", "failed"} -> 3

\* C37: the status of an album_downloads row only moves forward along
\* pending -> queued -> downloading -> completed | failed, the one step back
\* being the reset of a FAILED row to PENDING; a COMPLETED row never changes
\* status again.
C37_DownloadMovesForward ==
    [][\A a \in Albums :
          Exists(a) /\ dls'[a].status # dls[a].status =>
              /\ dls[a].status # "completed"
              /\ \/ Stage(dls[a].status) < Stage(dls'[a].status)
                 \/ dls[a].status = "failed" /\ dls'[a].status = "pending"]_vars


\* The step before this one was a resume of sync job j.
JustResumed(j) == last.op = "resume_sync_job" /\ last.arg = j

\* C38: at most one execution works on a sync job at any time: a resume of
\* a job in DOWNLOADING is never scheduled while run_sync_job of the same job
\* is still in flight, and a job whose resume has just run is not scheduled
\* for another resume.
C38_OneExecutionPerJob ==
    [][\A j \in JobIds :
          /\ ResumeScheduled(j) => j \notin Running
          /\ JustResumed(j) => ~ResumeScheduled(j)]_vars


\* run_sync_job of sync job j has been started.
RunStarted(j) == j \in JobIds /\ run[j].pc \notin {"none", "queued"}

\* Sync job j is COMPLETED or FAILED.
JobEnded(j) == j \in JobIds /\ jobs[j].status \in {"completed", "failed"}

\* C39: every started run of a sync job eventually ends with the job
\* COMPLETED or FAILED, whatever the remote queue does with the jobs that
\* were submitted to it.
C39_RunEnds ==
    \A j \in 1..MaxJobs : RunStarted(j) ~> JobEnded(j)


\* C40: an AlbumDownload that is PENDING has no remote job id, and an
\* AlbumDownload that is QUEUED or DOWNLOADING has one; also after a retry
\* has reset a FAILED download that had a remote job id.
C40_RemoteIdFollowsStatus ==
    \A a \in Albums :
        Exists(a) =>
            /\ dls[a].status = "pending" => dls[a].yubal_job_id = 0
            /\ dls[a].status \in {"queued", "downloading"} =>
                   dls[a].yubal_job_id # 0

====
